---- MODULE Spec2Model ----
(***************************************************************************)
(* Model of jizumer/expedition-value: the Portfolio and Company            *)
(* aggregates, the two in-memory repositories (a map of POINTERS guarded   *)
(* by one sync.RWMutex each) and the application services.                 *)
(*                                                                         *)
(* Objects live in heaps (heap, cheap); a pointer is an index into a heap. *)
(* The repositories store and hand out pointers, so a service that loads   *)
(* an aggregate mutates the stored object itself.                          *)
(*                                                                         *)
(* int64 is modelled as a two's-complement integer of IntBits bits; every  *)
(* arithmetic operation of the code wraps as Go's does.                    *)
(* Time is counted in days; the zero time.Time is ZeroTime.                *)
(***************************************************************************)
EXTENDS Integers, Sequences, FiniteSets, TLC

VARIABLES
    heap,        \* portfolio objects: heap[r] is the Portfolio at pointer r
    portfolios,  \* InMemoryPortfolioRepository.portfolios: ID -> pointer
    cheap,       \* company objects: cheap[r] is the Company at pointer r
    companies,   \* InMemoryCompanyRepository.companies: ticker -> pointer
    now,         \* the wall clock, in days
    ret,         \* the last completed sequential call and what it returned
    pc,          \* per goroutine: the statement it is about to execute
    loc,         \* per goroutine: its arguments and local variables
    pMu,         \* InMemoryPortfolioRepository.mu
    cMu,         \* InMemoryCompanyRepository.mu
    fault        \* outcome of a data race on a Go map: "none", or the fault

vars == <<heap, portfolios, cheap, companies, now, ret, pc, loc, pMu, cMu, fault>>

(***************************************************************************)
(* Bounds of the model                                                     *)
(***************************************************************************)
IntBits == 4       \* width of the modelled int64
MaxNow == 2        \* last day of the clock in the short-clock specifications
MaxRebalanceNow == 94  \* last day of the clock in SpecRebalance

(***************************************************************************)
(* Program constants                                                       *)
(***************************************************************************)
RebalanceDays == 90    \* 3 * 30 * 24 * time.Hour, in days
ZeroTime == 0          \* time.Time{}
Conservative == 1      \* RiskProfile iota
Moderate == 2
Technology == 1        \* Sector iota
Healthcare == 2

Null == 0              \* the nil pointer

(***************************************************************************)
(* Errors: a chain of messages, outermost first; fmt.Errorf("...: %w", e)  *)
(* prepends a message to e and errors.Is looks for a suffix of the chain   *)
(***************************************************************************)
Nil == <<>>
Err(msg) == <<msg>>
Errorf(msg, e) == <<msg>> \o e
Is(e, target) == \E i \in 1..Len(e) : SubSeq(e, i, Len(e)) = target
ErrPortfolioNotFound == Err("portfolio not found")
ErrCompanyNotFound == Err("company not found")

(***************************************************************************)
(* int64 arithmetic                                                        *)
(***************************************************************************)
MinInt == -(2 ^ (IntBits - 1))
MaxInt == (2 ^ (IntBits - 1)) - 1
Wrap(x) == ((x - MinInt) % (2 ^ IntBits)) + MinInt
Sub64(a, b) == Wrap(a - b)
Add64(a, b) == Wrap(a + b)
Mul64(a, b) == Wrap(a * b)

(***************************************************************************)
(* Go maps as functions                                                    *)
(***************************************************************************)
EmptyMap == [k \in {} |-> k]
Put(m, k, v) == [x \in (DOMAIN m) \cup {k} |-> IF x = k THEN v ELSE m[x]]
Remove(m, k) == [x \in (DOMAIN m) \ {k} |-> m[x]]
Range(m) == {m[k] : k \in DOMAIN m}

(***************************************************************************)
(* Heaps: a function from the allocated pointers to the objects there      *)
(***************************************************************************)
\* whether a new object can still be allocated among the pointers refs
CanAlloc(h, refs) == refs \ (DOMAIN h) # {}
\* the pointer of the next object allocated
Alloc(h, refs) ==
    CHOOSE r \in refs \ (DOMAIN h) : \A q \in refs \ (DOMAIN h) : r <= q
\* garbage collection: only the objects still referenced remain
Collect(h, live) == [r \in (DOMAIN h) \cap live |-> h[r]]

(***************************************************************************)
(* Value objects                                                           *)
(***************************************************************************)
Money(amount, currency) == [Amount |-> amount, Currency |-> currency]

\* NewPosition: [pos, err]
NewPosition(ticker, shares, purchasePrice) ==
    IF ticker = "" THEN [pos |-> Null, err |-> Err("company ticker cannot be empty")]
    ELSE IF shares <= 0 THEN [pos |-> Null, err |-> Err("shares must be positive")]
    ELSE [pos |-> [CompanyTicker |-> ticker, Shares |-> shares,
                   PurchasePrice |-> purchasePrice],
          err |-> Nil]

(***************************************************************************)
(* Portfolio aggregate (pure functions of the object's value; t = time.Now)*)
(***************************************************************************)
\* NewPortfolio that accepts a negative initial cash balance (mutant)
NewPortfolio_AnyCash(id, riskProfile, initialCash, t) ==
    IF id = "" THEN [p |-> Null, err |-> Err("portfolio ID cannot be empty")]
    ELSE [p |-> [ID |-> id, Holdings |-> EmptyMap, CashBalance |-> initialCash,
                 RiskProfile |-> riskProfile, LastRebalanceTime |-> ZeroTime,
                 UpdatedAt |-> t],
          err |-> Nil]

\* NewPortfolio: [p, err]
NewPortfolio(id, riskProfile, initialCash, t) ==
    IF id = "" THEN [p |-> Null, err |-> Err("portfolio ID cannot be empty")]
    ELSE IF initialCash.Amount < 0
        THEN [p |-> Null, err |-> Err("initial cash balance cannot be negative")]
    ELSE [p |-> [ID |-> id, Holdings |-> EmptyMap, CashBalance |-> initialCash,
                 RiskProfile |-> riskProfile, LastRebalanceTime |-> ZeroTime,
                 UpdatedAt |-> t],
          err |-> Nil]

ValidateCashBalance(p) == p.CashBalance.Amount >= 0

\* CheckRebalanceTrigger that already triggers at exactly 90 days (mutant)
CheckRebalanceTrigger_AtNinetyDays(p, t) ==
    IF p.LastRebalanceTime = ZeroTime THEN TRUE
    ELSE (t - p.LastRebalanceTime) >= RebalanceDays

\* Portfolio.CheckRebalanceTrigger; t - LastRebalanceTime is time.Since
CheckRebalanceTrigger(p, t) ==
    IF p.LastRebalanceTime = ZeroTime THEN TRUE
    ELSE (t - p.LastRebalanceTime) > RebalanceDays

\* Portfolio.AddPosition with the boundary test off by one (mutant)
Portfolio_AddPosition_OffByOne(p, position, cost, t) ==
    IF ~ValidateCashBalance(p) \/ p.CashBalance.Amount <= cost.Amount
    THEN [p |-> p, err |-> Err("insufficient cash balance to add position")]
    ELSE [p |-> [p EXCEPT !.CashBalance.Amount = Sub64(@, cost.Amount),
                          !.Holdings = Put(@, position.CompanyTicker, position),
                          !.UpdatedAt = t],
          err |-> Nil]

\* Portfolio.AddPosition that adds the shares to a holding already there
\* (mutant)
Portfolio_AddPosition_Accumulate(p, position, cost, t) ==
    IF ~ValidateCashBalance(p) \/ p.CashBalance.Amount < cost.Amount
    THEN [p |-> p, err |-> Err("insufficient cash balance to add position")]
    ELSE LET tk == position.CompanyTicker
             held == IF tk \in DOMAIN p.Holdings THEN p.Holdings[tk].Shares ELSE 0
         IN
         [p |-> [p EXCEPT !.CashBalance.Amount = Sub64(@, cost.Amount),
                          !.Holdings = Put(@, tk, [position EXCEPT
                                                    !.Shares = @ + held]),
                          !.UpdatedAt = t],
          err |-> Nil]

\* Portfolio.AddPosition: [p, err]
Portfolio_AddPosition(p, position, cost, t) ==
    IF ~ValidateCashBalance(p) \/ p.CashBalance.Amount < cost.Amount
    THEN [p |-> p, err |-> Err("insufficient cash balance to add position")]
    ELSE [p |-> [p EXCEPT !.CashBalance.Amount = Sub64(@, cost.Amount),
                          !.Holdings = Put(@, position.CompanyTicker, position),
                          !.UpdatedAt = t],
          err |-> Nil]

\* RemovePosition that also takes the sold shares out of the holding, and
\* the holding out of the map when none are left (mutant)
Portfolio_RemovePosition_Sells(p, ticker, sharesToRemove, proceeds, t) ==
    LET left == IF ticker \in DOMAIN p.Holdings
                THEN p.Holdings[ticker].Shares - sharesToRemove ELSE 0
        hs == IF ticker \notin DOMAIN p.Holdings THEN p.Holdings
              ELSE IF left <= 0 THEN Remove(p.Holdings, ticker)
              ELSE [p.Holdings EXCEPT ![ticker].Shares = left]
    IN  [p |-> [p EXCEPT !.CashBalance.Amount = Add64(@, proceeds.Amount),
                         !.Holdings = hs,
                         !.UpdatedAt = t],
         err |-> Nil]

\* Portfolio.RemovePosition: [p, err]
Portfolio_RemovePosition(p, ticker, sharesToRemove, proceeds, t) ==
    [p |-> [p EXCEPT !.CashBalance.Amount = Add64(@, proceeds.Amount),
                     !.UpdatedAt = t],
     err |-> Nil]

\* GenerateRebalanceRecommendations that recommends whether or not a
\* rebalance is triggered (mutant)
GenerateRebalanceRecommendations_Always(p, t) ==
    [recs |-> <<"Recommendation: Sell X, Buy Y">>, err |-> Nil]

\* Portfolio.GenerateRebalanceRecommendations: [recs, err]
GenerateRebalanceRecommendations(p, t) ==
    IF CheckRebalanceTrigger(p, t)
    THEN [recs |-> <<"Recommendation: Sell X, Buy Y">>, err |-> Nil]
    ELSE [recs |-> <<>>, err |-> Err("rebalance not currently triggered")]

(***************************************************************************)
(* Inputs                                                                  *)
(***************************************************************************)
Threads == {"g1", "g2"}
Tickers == {"AAPL", "MSFT"}
Currencies == {"USD", "EUR"}
Amounts == {MinInt, -1, 0, 1, 2, MaxInt}      \* int64 amounts tried by callers
ShareCounts == {0, 1, 2}
DomainIDs == {"", "p1"}
DomainRefs == {1}                              \* pointers of SpecDomain
\* costs and proceeds: every amount in the portfolio's currency, one in another
DomainCosts == {Money(a, "USD") : a \in Amounts} \cup {Money(1, "EUR")}
DomainPositions ==
    {[CompanyTicker |-> tk, Shares |-> n, PurchasePrice |-> Money(1, "USD")] :
        tk \in Tickers, n \in {1, 2}}

(***************************************************************************)
(* Initial state: both repositories as constructed, nothing allocated      *)
(***************************************************************************)
NoCall ==
    [op |-> "none", err |-> Nil, ref |-> Null, amt |-> 0, key |-> "",
     prev |-> Null]

Idle == [g \in Threads |-> "idle"]
\* a goroutine's arguments and local variables before it is started
Locals0 ==
    [op |-> "", after |-> "done", id |-> "", ticker |-> "", shares |-> 0,
     price |-> Money(0, ""), sector |-> 0, ref |-> Null, cref |-> Null,
     pos |-> Null, cost |-> Money(0, ""), tmp |-> 0, snap |-> EmptyMap,
     todo |-> {}, hold |-> {}, seen |-> {}, results |-> <<>>, err |-> Nil,
     pre |-> Null]
NoLocals == [g \in Threads |-> Locals0]
Unlocked == [writer |-> "", readers |-> {}]

Init ==
    /\ heap = EmptyMap
    /\ portfolios = EmptyMap
    /\ cheap = EmptyMap
    /\ companies = EmptyMap
    /\ now = 1
    /\ ret = NoCall
    /\ pc = Idle
    /\ loc = NoLocals
    /\ pMu = Unlocked
    /\ cMu = Unlocked
    /\ fault = "none"

AllIdle == \A g \in Threads : pc[g] = "idle"

concVars == <<pc, loc, pMu, cMu, fault>>
repoVars == <<portfolios, cheap, companies>>

(***************************************************************************)
(* The clock                                                               *)
(***************************************************************************)
Tick ==
    /\ now < MaxNow
    /\ now' = now + 1
    /\ UNCHANGED <<heap, portfolios, cheap, companies, ret, concVars>>

(***************************************************************************)
(* Direct calls of the Portfolio aggregate (no repository involved)        *)
(***************************************************************************)
\* p, err := NewPortfolio(id, riskProfile, initialCash)
CallNewPortfolio(refs, id, riskProfile, initialCash) ==
    /\ AllIdle
    /\ CanAlloc(heap, refs)
    /\ LET r == NewPortfolio(id, riskProfile, initialCash, now)
           a == Alloc(heap, refs)
       IN
        /\ heap' = IF r.err = Nil THEN Put(heap, a, r.p) ELSE heap
        /\ ret' = [op |-> "NewPortfolio", err |-> r.err,
                   ref |-> IF r.err = Nil THEN a ELSE Null,
                   amt |-> initialCash.Amount, key |-> id, prev |-> Null]
    /\ UNCHANGED <<repoVars, now, concVars>>

\* err := heap[ref].AddPosition(position, cost)
CallAddPosition(ref, position, cost) ==
    /\ AllIdle
    /\ ref \in DOMAIN heap
    /\ LET r == Portfolio_AddPosition(heap[ref], position, cost, now) IN
        /\ heap' = [heap EXCEPT ![ref] = r.p]
        /\ ret' = [op |-> "AddPosition", err |-> r.err, ref |-> ref,
                   amt |-> cost.Amount, key |-> position.CompanyTicker,
                   prev |-> Null]
    /\ UNCHANGED <<repoVars, now, concVars>>

\* err := heap[ref].RemovePosition(ticker, sharesToRemove, proceeds)
CallRemovePosition(ref, ticker, sharesToRemove, proceeds) ==
    /\ AllIdle
    /\ ref \in DOMAIN heap
    /\ LET r == Portfolio_RemovePosition(heap[ref], ticker, sharesToRemove,
                                         proceeds, now) IN
        /\ heap' = [heap EXCEPT ![ref] = r.p]
        /\ ret' = [op |-> "RemovePosition", err |-> r.err, ref |-> ref,
                   amt |-> proceeds.Amount, key |-> ticker, prev |-> Null]
    /\ UNCHANGED <<repoVars, now, concVars>>

DomainNext ==
    \/ Tick
    \/ \E id \in DomainIDs, a \in Amounts :
            CallNewPortfolio(DomainRefs, id, Moderate, Money(a, "USD"))
    \/ \E ref \in DomainRefs, pos \in DomainPositions, cost \in DomainCosts :
            CallAddPosition(ref, pos, cost)
    \/ \E ref \in DomainRefs, tk \in Tickers, n \in ShareCounts,
          proceeds \in DomainCosts :
            CallRemovePosition(ref, tk, n, proceeds)

SpecDomain == Init /\ [][DomainNext]_vars

(***************************************************************************)
(* Claims about the Portfolio aggregate (SpecDomain)                       *)
(***************************************************************************)
\* C1: for a Portfolio created by NewPortfolio, after any sequence of
\* AddPosition and RemovePosition calls, CashBalance.Amount >= 0
\* (ValidateCashBalance() is true).
C1_CashNeverNegative ==
    \A r \in DOMAIN heap : ValidateCashBalance(heap[r])

\* C2: AddPosition(position, cost) fails exactly when CashBalance.Amount <
\* cost.Amount (a cost equal to cash succeeds and leaves 0); on success cash
\* decreases by exactly cost.Amount (int64 arithmetic) and
\* Holdings[position.CompanyTicker] = position; on failure an error is
\* returned and Holdings, CashBalance and UpdatedAt are unchanged.
C2_AddPositionContract ==
    [][\A ref \in DomainRefs, pos \in DomainPositions, a \in Amounts :
        CallAddPosition(ref, pos, Money(a, "USD")) =>
            LET p == heap[ref]
                q == heap'[ref]
                failed == ret'.err # Nil
            IN  /\ failed <=> (p.CashBalance.Amount < a)
                /\ ~failed =>
                    /\ q.CashBalance.Amount = Sub64(p.CashBalance.Amount, a)
                    /\ pos.CompanyTicker \in DOMAIN q.Holdings
                    /\ q.Holdings[pos.CompanyTicker] = pos
                    /\ (a = p.CashBalance.Amount => q.CashBalance.Amount = 0)
                /\ failed => q = p
      ]_vars

C14_CurrencyMismatchRejected ==
    [][\A ref \in DomainRefs, cost \in DomainCosts :
        (/\ ref \in DOMAIN heap
         /\ cost.Currency # heap[ref].CashBalance.Currency
         /\ ret'.amt = cost.Amount
         /\ \/ \E pos \in DomainPositions : CallAddPosition(ref, pos, cost)
            \/ \E tk \in Tickers, n \in ShareCounts :
                    CallRemovePosition(ref, tk, n, cost))
        => /\ ret'.err # Nil
           /\ heap'[ref].CashBalance = heap[ref].CashBalance
           /\ heap'[ref].Holdings = heap[ref].Holdings
      ]_vars

(***************************************************************************)
(* Company aggregate                                                       *)
(***************************************************************************)
FinancialMetrics(pe, pb, de, t) ==
    [PERatio |-> pe, PBRatio |-> pb, DebtToEquity |-> de, MetricsUpdatedAt |-> t]

\* NewCompany: [c, err]
NewCompany(ticker, metrics, sector, t) ==
    IF ticker = "" THEN [c |-> Null, err |-> Err("ticker cannot be empty")]
    ELSE [c |-> [Ticker |-> ticker, FinancialMetrics |-> metrics,
                 Sector |-> sector, CurrentScore |-> 0, UpdatedAt |-> t],
          err |-> Nil]

(***************************************************************************)
(* InMemoryPortfolioRepository: m is the map, h the heap of portfolios     *)
(***************************************************************************)
\* Save that only inserts and never replaces a stored key (mutant)
PortfolioRepo_Save_InsertOnly(m, h, ref) ==
    IF ref = Null THEN [m |-> m, err |-> Err("portfolio cannot be nil")]
    ELSE IF h[ref].ID = "" THEN [m |-> m, err |-> Err("portfolio ID cannot be empty")]
    ELSE IF h[ref].ID \in DOMAIN m THEN [m |-> m, err |-> Nil]
    ELSE [m |-> Put(m, h[ref].ID, ref), err |-> Nil]

\* Save: [m, err]
PortfolioRepo_Save(m, h, ref) ==
    IF ref = Null THEN [m |-> m, err |-> Err("portfolio cannot be nil")]
    ELSE IF h[ref].ID = "" THEN [m |-> m, err |-> Err("portfolio ID cannot be empty")]
    ELSE [m |-> Put(m, h[ref].ID, ref), err |-> Nil]

\* FindByID: [ref, err]
PortfolioRepo_FindByID(m, id) ==
    IF id = "" THEN [ref |-> Null, err |-> Err("portfolio ID cannot be empty")]
    ELSE IF id \notin DOMAIN m THEN [ref |-> Null, err |-> ErrPortfolioNotFound]
    ELSE [ref |-> m[id], err |-> Nil]

\* Delete that reports success without removing the entry (mutant)
PortfolioRepo_Delete_KeepsEntry(m, id) ==
    IF id = "" THEN [m |-> m, err |-> Err("portfolio ID cannot be empty")]
    ELSE IF id \notin DOMAIN m
        THEN [m |-> m,
              err |-> Errorf("portfolio not found for deletion", ErrPortfolioNotFound)]
    ELSE [m |-> m, err |-> Nil]

\* Delete: [m, err]
PortfolioRepo_Delete(m, id) ==
    IF id = "" THEN [m |-> m, err |-> Err("portfolio ID cannot be empty")]
    ELSE IF id \notin DOMAIN m
        THEN [m |-> m,
              err |-> Errorf("portfolio not found for deletion", ErrPortfolioNotFound)]
    ELSE [m |-> Remove(m, id), err |-> Nil]

(***************************************************************************)
(* InMemoryCompanyRepository: m is the map, h the heap of companies        *)
(***************************************************************************)
\* Save: [m, err]
CompanyRepo_Save(m, h, ref) ==
    IF ref = Null THEN [m |-> m, err |-> Err("company cannot be nil")]
    ELSE IF h[ref].Ticker = "" THEN [m |-> m, err |-> Err("company ticker cannot be empty")]
    ELSE [m |-> Put(m, h[ref].Ticker, ref), err |-> Nil]

\* FindByTicker: [ref, err]
CompanyRepo_FindByTicker(m, ticker) ==
    IF ticker = "" THEN [ref |-> Null, err |-> Err("ticker cannot be empty")]
    ELSE IF ticker \notin DOMAIN m THEN [ref |-> Null, err |-> ErrCompanyNotFound]
    ELSE [ref |-> m[ticker], err |-> Nil]

\* Delete: [m, err]
CompanyRepo_Delete(m, ticker) ==
    IF ticker = "" THEN [m |-> m, err |-> Err("ticker cannot be empty")]
    ELSE IF ticker \notin DOMAIN m
        THEN [m |-> m,
              err |-> Errorf("company not found for deletion", ErrCompanyNotFound)]
    ELSE [m |-> Remove(m, ticker), err |-> Nil]

(***************************************************************************)
(* Direct, non-overlapping calls of the two repositories (SpecRepo)        *)
(***************************************************************************)
RepoIDs == {"", "p1", "p2"}
RepoTickers == {"", "AAPL", "MSFT"}
RepoRefs == {1, 2}

\* c, err := company.NewCompany(ticker, metrics, sector)
CallNewCompany(refs, ticker, sector) ==
    /\ AllIdle
    /\ CanAlloc(cheap, refs)
    /\ LET r == NewCompany(ticker, FinancialMetrics(0, 0, 0, ZeroTime), sector, now)
           a == Alloc(cheap, refs)
       IN
        /\ cheap' = IF r.err = Nil THEN Put(cheap, a, r.c) ELSE cheap
        /\ ret' = [op |-> "NewCompany", err |-> r.err,
                   ref |-> IF r.err = Nil THEN a ELSE Null,
                   amt |-> 0, key |-> ticker, prev |-> Null]
    /\ UNCHANGED <<heap, portfolios, companies, now, concVars>>

\* err := portfolioRepo.Save(ref)
CallPortfolioSave(ref) ==
    /\ AllIdle
    /\ ref \in {Null} \cup DOMAIN heap
    /\ LET r == PortfolioRepo_Save(portfolios, heap, ref)
           id == IF ref = Null THEN "" ELSE heap[ref].ID
       IN
        /\ portfolios' = r.m
        /\ ret' = [op |-> "PortfolioRepo.Save", err |-> r.err, ref |-> ref,
                   amt |-> 0, key |-> id,
                   prev |-> IF id \in DOMAIN portfolios THEN portfolios[id] ELSE Null]
    /\ UNCHANGED <<heap, cheap, companies, now, concVars>>

\* p, err := portfolioRepo.FindByID(id)
CallPortfolioFindByID(id) ==
    /\ AllIdle
    /\ LET r == PortfolioRepo_FindByID(portfolios, id) IN
        ret' = [op |-> "PortfolioRepo.FindByID", err |-> r.err, ref |-> r.ref,
                amt |-> 0, key |-> id, prev |-> Null]
    /\ UNCHANGED <<heap, repoVars, now, concVars>>

\* err := portfolioRepo.Delete(id)
CallPortfolioDelete(id) ==
    /\ AllIdle
    /\ LET r == PortfolioRepo_Delete(portfolios, id) IN
        /\ portfolios' = r.m
        /\ ret' = [op |-> "PortfolioRepo.Delete", err |-> r.err, ref |-> Null,
                   amt |-> 0, key |-> id,
                   prev |-> IF id \in DOMAIN portfolios THEN portfolios[id] ELSE Null]
    /\ UNCHANGED <<heap, cheap, companies, now, concVars>>

\* err := companyRepo.Save(ref)
CallCompanySave(ref) ==
    /\ AllIdle
    /\ ref \in {Null} \cup DOMAIN cheap
    /\ LET r == CompanyRepo_Save(companies, cheap, ref)
           tk == IF ref = Null THEN "" ELSE cheap[ref].Ticker
       IN
        /\ companies' = r.m
        /\ ret' = [op |-> "CompanyRepo.Save", err |-> r.err, ref |-> ref,
                   amt |-> 0, key |-> tk,
                   prev |-> IF tk \in DOMAIN companies THEN companies[tk] ELSE Null]
    /\ UNCHANGED <<heap, portfolios, cheap, now, concVars>>

\* c, err := companyRepo.FindByTicker(ticker)
CallCompanyFindByTicker(ticker) ==
    /\ AllIdle
    /\ LET r == CompanyRepo_FindByTicker(companies, ticker) IN
        ret' = [op |-> "CompanyRepo.FindByTicker", err |-> r.err, ref |-> r.ref,
                amt |-> 0, key |-> ticker, prev |-> Null]
    /\ UNCHANGED <<heap, repoVars, now, concVars>>

\* err := companyRepo.Delete(ticker)
CallCompanyDelete(ticker) ==
    /\ AllIdle
    /\ LET r == CompanyRepo_Delete(companies, ticker) IN
        /\ companies' = r.m
        /\ ret' = [op |-> "CompanyRepo.Delete", err |-> r.err, ref |-> Null,
                   amt |-> 0, key |-> ticker,
                   prev |-> IF ticker \in DOMAIN companies THEN companies[ticker]
                            ELSE Null]
    /\ UNCHANGED <<heap, portfolios, cheap, now, concVars>>

RepoNext ==
    \/ \E id \in RepoIDs : CallNewPortfolio(RepoRefs, id, Moderate, Money(1, "USD"))
    \/ \E tk \in RepoTickers : CallNewCompany(RepoRefs, tk, Technology)
    \/ \E ref \in {Null} \cup RepoRefs : CallPortfolioSave(ref)
    \/ \E id \in RepoIDs : CallPortfolioFindByID(id)
    \/ \E id \in RepoIDs : CallPortfolioDelete(id)
    \/ \E ref \in {Null} \cup RepoRefs : CallCompanySave(ref)
    \/ \E tk \in RepoTickers : CallCompanyFindByTicker(tk)
    \/ \E tk \in RepoTickers : CallCompanyDelete(tk)

SpecRepo == Init /\ [][RepoNext]_vars

(***************************************************************************)
(* Claims about the repositories, one call at a time (SpecRepo)            *)
(***************************************************************************)
\* this step is a Save into the portfolio (company) repository under key k
IsPortfolioSaveOf(k) ==
    \E ref \in {Null} \cup RepoRefs : CallPortfolioSave(ref) /\ ret'.key = k
IsCompanySaveOf(k) ==
    \E ref \in {Null} \cup RepoRefs : CallCompanySave(ref) /\ ret'.key = k

\* C6: after Save(x) returns nil, FindByID/FindByTicker with x's key returns
\* x (the pointer saved, also when the key was stored before: upsert), and
\* what Find returns for a key changes only at a Save or Delete of that key.
C6_SaveThenFind ==
    [][ /\ \A ref \in RepoRefs :
            (CallPortfolioSave(ref) /\ ret'.err = Nil) =>
                PortfolioRepo_FindByID(portfolios', heap'[ref].ID)
                    = [ref |-> ref, err |-> Nil]
        /\ \A ref \in RepoRefs :
            (CallCompanySave(ref) /\ ret'.err = Nil) =>
                CompanyRepo_FindByTicker(companies', cheap'[ref].Ticker)
                    = [ref |-> ref, err |-> Nil]
        /\ \A id \in RepoIDs :
            (~IsPortfolioSaveOf(id) /\ ~CallPortfolioDelete(id)) =>
                PortfolioRepo_FindByID(portfolios', id)
                    = PortfolioRepo_FindByID(portfolios, id)
        /\ \A tk \in RepoTickers :
            (~IsCompanySaveOf(tk) /\ ~CallCompanyDelete(tk)) =>
                CompanyRepo_FindByTicker(companies', tk)
                    = CompanyRepo_FindByTicker(companies, tk)
      ]_vars

\* C6 witness: a Save has just replaced another object stored under its key
C6_Witness ==
    /\ ret.op = "PortfolioRepo.Save"
    /\ ret.err = Nil
    /\ ret.prev # Null
    /\ ret.prev # ret.ref
    /\ portfolios[ret.key] = ret.ref

\* what C7 says of a Delete of key k from map m with outcome err, m2, where
\* find is the repository's lookup and notFound its sentinel error
DeleteContract(keys, k, m, m2, err, notFound) ==
    IF k \in DOMAIN m
    THEN /\ err = Nil
         /\ k \notin DOMAIN m2
         /\ \A o \in keys \ {k} :
                (o \in DOMAIN m <=> o \in DOMAIN m2)
                /\ (o \in DOMAIN m => m2[o] = m[o])
    ELSE /\ Is(err, notFound)
         /\ m2 = m

\* C7 (as claimed): after Delete(key) returns nil, Find(key) fails with
\* NotFound until a later Save of that key; Delete of ANY key that is not
\* stored fails with an error wrapping NotFound and leaves the map unchanged;
\* Delete never affects another key.
C7_DeleteContract ==
    [][ /\ \A id \in RepoIDs :
            CallPortfolioDelete(id) =>
                /\ DeleteContract(RepoIDs, id, portfolios, portfolios', ret'.err,
                                  ErrPortfolioNotFound)
                /\ ret'.err = Nil =>
                    PortfolioRepo_FindByID(portfolios', id).err = ErrPortfolioNotFound
        /\ \A tk \in RepoTickers :
            CallCompanyDelete(tk) =>
                /\ DeleteContract(RepoTickers, tk, companies, companies', ret'.err,
                                  ErrCompanyNotFound)
                /\ ret'.err = Nil =>
                    CompanyRepo_FindByTicker(companies', tk).err = ErrCompanyNotFound
        /\ \A id \in RepoIDs :
            (id \notin DOMAIN portfolios /\ ~IsPortfolioSaveOf(id)) =>
                id \notin DOMAIN portfolios'
        /\ \A tk \in RepoTickers :
            (tk \notin DOMAIN companies /\ ~IsCompanySaveOf(tk)) =>
                tk \notin DOMAIN companies'
      ]_vars

\* C7 (amended): the same, with the unstored key non-empty; Delete("") fails
\* with a validation error that does not wrap NotFound and changes nothing.
C7_DeleteContractNonEmptyKey ==
    [][ /\ \A id \in RepoIDs :
            CallPortfolioDelete(id) =>
                IF id = ""
                THEN /\ ret'.err # Nil
                     /\ ~Is(ret'.err, ErrPortfolioNotFound)
                     /\ portfolios' = portfolios
                ELSE /\ DeleteContract(RepoIDs, id, portfolios, portfolios',
                                       ret'.err, ErrPortfolioNotFound)
                     /\ ret'.err = Nil =>
                            PortfolioRepo_FindByID(portfolios', id).err
                                = ErrPortfolioNotFound
        /\ \A tk \in RepoTickers :
            CallCompanyDelete(tk) =>
                IF tk = ""
                THEN /\ ret'.err # Nil
                     /\ ~Is(ret'.err, ErrCompanyNotFound)
                     /\ companies' = companies
                ELSE /\ DeleteContract(RepoTickers, tk, companies, companies',
                                       ret'.err, ErrCompanyNotFound)
                     /\ ret'.err = Nil =>
                            CompanyRepo_FindByTicker(companies', tk).err
                                = ErrCompanyNotFound
        /\ \A id \in RepoIDs :
            (id \notin DOMAIN portfolios /\ ~IsPortfolioSaveOf(id)) =>
                id \notin DOMAIN portfolios'
        /\ \A tk \in RepoTickers :
            (tk \notin DOMAIN companies /\ ~IsCompanySaveOf(tk)) =>
                tk \notin DOMAIN companies'
      ]_vars

\* C7 witness: a Delete has just removed one stored key and another key is
\* still stored
C7_Witness ==
    /\ ret.op = "PortfolioRepo.Delete"
    /\ ret.err = Nil
    /\ ret.prev # Null
    /\ ret.key \notin DOMAIN portfolios
    /\ DOMAIN portfolios # {}

(***************************************************************************)
(* Application services, as functions of the stored state:                 *)
(* h, pm = portfolio heap and repository map; ch, cm = the companies'      *)
(***************************************************************************)
\* uuid.NewString(): an ID no portfolio has
UUIDs == <<"u1", "u2">>
NewUUID(h) ==
    UUIDs[CHOOSE i \in 1..Len(UUIDs) :
            /\ \A r \in DOMAIN h : h[r].ID # UUIDs[i]
            /\ \A j \in 1..(i - 1) : \E r \in DOMAIN h : h[r].ID = UUIDs[j]]
HasUUID(h) == \E i \in 1..Len(UUIDs) : \A r \in DOMAIN h : h[r].ID # UUIDs[i]

\* PortfolioService.GetPortfolioDetails: [ref, err]
GetPortfolioDetails(pm, portfolioID) ==
    IF portfolioID = "" THEN [ref |-> Null, err |-> Err("portfolioID cannot be empty")]
    ELSE LET f == PortfolioRepo_FindByID(pm, portfolioID) IN
         IF f.err # Nil
         THEN [ref |-> Null, err |-> Errorf("failed to find portfolio", f.err)]
         ELSE IF f.ref = Null
         THEN [ref |-> Null, err |-> Err("portfolio not found")]
         ELSE [ref |-> f.ref, err |-> Nil]

\* PortfolioService.CreatePortfolio at pointer a: [h, pm, ref, err]
CreatePortfolio(h, pm, a, cashBalance, riskProfile, t) ==
    LET n == NewPortfolio(NewUUID(h), riskProfile, cashBalance, t) IN
    IF n.err # Nil
    THEN [h |-> h, pm |-> pm, ref |-> Null,
          err |-> Errorf("failed to create new portfolio in domain", n.err)]
    ELSE LET h2 == Put(h, a, n.p)
             sv == PortfolioRepo_Save(pm, h2, a)
         IN  IF sv.err # Nil
             THEN [h |-> h, pm |-> sv.m, ref |-> Null,
                   err |-> Errorf("failed to save portfolio", sv.err)]
             ELSE [h |-> h2, pm |-> sv.m, ref |-> a, err |-> Nil]

\* PortfolioService.AddPosition that debits the price of one share (mutant)
PortfolioService_AddPosition_OneShare(h, pm, cm, portfolioID, companyTicker, shares, purchasePrice, t) ==
    IF portfolioID = "" THEN [h |-> h, pm |-> pm, err |-> Err("portfolioID cannot be empty")]
    ELSE IF companyTicker = ""
        THEN [h |-> h, pm |-> pm, err |-> Err("companyTicker cannot be empty")]
    ELSE IF shares <= 0 THEN [h |-> h, pm |-> pm, err |-> Err("shares must be positive")]
    ELSE LET comp == CompanyRepo_FindByTicker(cm, companyTicker) IN
    IF comp.err # Nil
        THEN [h |-> h, pm |-> pm,
              err |-> Errorf("failed to verify company ticker", comp.err)]
    ELSE IF comp.ref = Null
        THEN [h |-> h, pm |-> pm, err |-> Err("company with ticker not found")]
    ELSE LET g == GetPortfolioDetails(pm, portfolioID) IN
    IF g.err # Nil THEN [h |-> h, pm |-> pm, err |-> g.err]
    ELSE LET np == NewPosition(companyTicker, shares, purchasePrice) IN
    IF np.err # Nil
        THEN [h |-> h, pm |-> pm, err |-> Errorf("failed to create new position", np.err)]
    ELSE LET cost == Money(purchasePrice.Amount, purchasePrice.Currency)
             \* the domain method mutates the object FindByID returned
             ad == Portfolio_AddPosition(h[g.ref], np.pos, cost, t)
         IN
         IF ad.err # Nil
         THEN [h |-> h, pm |-> pm,
               err |-> Errorf("domain error adding position to portfolio", ad.err)]
         ELSE LET h2 == [h EXCEPT ![g.ref] = ad.p]
                  sv == PortfolioRepo_Save(pm, h2, g.ref)
              IN  IF sv.err # Nil
                  THEN [h |-> h2, pm |-> sv.m,
                        err |-> Errorf("failed to save updated portfolio", sv.err)]
                  ELSE [h |-> h2, pm |-> sv.m, err |-> Nil]

\* PortfolioService.AddPosition that does not look the company up (mutant)
PortfolioService_AddPosition_AnyTicker(h, pm, cm, portfolioID, companyTicker, shares, purchasePrice, t) ==
    IF portfolioID = "" THEN [h |-> h, pm |-> pm, err |-> Err("portfolioID cannot be empty")]
    ELSE IF companyTicker = ""
        THEN [h |-> h, pm |-> pm, err |-> Err("companyTicker cannot be empty")]
    ELSE IF shares <= 0 THEN [h |-> h, pm |-> pm, err |-> Err("shares must be positive")]
    ELSE LET g == GetPortfolioDetails(pm, portfolioID) IN
    IF g.err # Nil THEN [h |-> h, pm |-> pm, err |-> g.err]
    ELSE LET np == NewPosition(companyTicker, shares, purchasePrice) IN
    IF np.err # Nil
        THEN [h |-> h, pm |-> pm, err |-> Errorf("failed to create new position", np.err)]
    ELSE LET cost == Money(Mul64(purchasePrice.Amount, shares), purchasePrice.Currency)
             \* the domain method mutates the object FindByID returned
             ad == Portfolio_AddPosition(h[g.ref], np.pos, cost, t)
         IN
         IF ad.err # Nil
         THEN [h |-> h, pm |-> pm,
               err |-> Errorf("domain error adding position to portfolio", ad.err)]
         ELSE LET h2 == [h EXCEPT ![g.ref] = ad.p]
                  sv == PortfolioRepo_Save(pm, h2, g.ref)
              IN  IF sv.err # Nil
                  THEN [h |-> h2, pm |-> sv.m,
                        err |-> Errorf("failed to save updated portfolio", sv.err)]
                  ELSE [h |-> h2, pm |-> sv.m, err |-> Nil]

\* PortfolioService.AddPosition: [h, pm, err]
PortfolioService_AddPosition(h, pm, cm, portfolioID, companyTicker, shares, purchasePrice, t) ==
    IF portfolioID = "" THEN [h |-> h, pm |-> pm, err |-> Err("portfolioID cannot be empty")]
    ELSE IF companyTicker = ""
        THEN [h |-> h, pm |-> pm, err |-> Err("companyTicker cannot be empty")]
    ELSE IF shares <= 0 THEN [h |-> h, pm |-> pm, err |-> Err("shares must be positive")]
    ELSE LET comp == CompanyRepo_FindByTicker(cm, companyTicker) IN
    IF comp.err # Nil
        THEN [h |-> h, pm |-> pm,
              err |-> Errorf("failed to verify company ticker", comp.err)]
    ELSE IF comp.ref = Null
        THEN [h |-> h, pm |-> pm, err |-> Err("company with ticker not found")]
    ELSE LET g == GetPortfolioDetails(pm, portfolioID) IN
    IF g.err # Nil THEN [h |-> h, pm |-> pm, err |-> g.err]
    ELSE LET np == NewPosition(companyTicker, shares, purchasePrice) IN
    IF np.err # Nil
        THEN [h |-> h, pm |-> pm, err |-> Errorf("failed to create new position", np.err)]
    ELSE LET cost == Money(Mul64(purchasePrice.Amount, shares), purchasePrice.Currency)
             \* the domain method mutates the object FindByID returned
             ad == Portfolio_AddPosition(h[g.ref], np.pos, cost, t)
         IN
         IF ad.err # Nil
         THEN [h |-> h, pm |-> pm,
               err |-> Errorf("domain error adding position to portfolio", ad.err)]
         ELSE LET h2 == [h EXCEPT ![g.ref] = ad.p]
                  sv == PortfolioRepo_Save(pm, h2, g.ref)
              IN  IF sv.err # Nil
                  THEN [h |-> h2, pm |-> sv.m,
                        err |-> Errorf("failed to save updated portfolio", sv.err)]
                  ELSE [h |-> h2, pm |-> sv.m, err |-> Nil]

\* CompanyService.CreateCompany at pointer a: [ch, cm, ref, err]
CreateCompany(ch, cm, a, ticker, metrics, sector, t) ==
    LET n == NewCompany(ticker, metrics, sector, t) IN
    IF n.err # Nil THEN [ch |-> ch, cm |-> cm, ref |-> Null, err |-> n.err]
    ELSE LET ch2 == Put(ch, a, n.c)
             sv == CompanyRepo_Save(cm, ch2, a)
         IN  IF sv.err # Nil
             THEN [ch |-> ch, cm |-> sv.m, ref |-> Null, err |-> sv.err]
             ELSE [ch |-> ch2, cm |-> sv.m, ref |-> a, err |-> Nil]

(***************************************************************************)
(* Non-overlapping calls of the services (Spec)                            *)
(***************************************************************************)
SvcRefs == {1}                   \* portfolio pointers of Spec
SvcCompanyRefs == {1, 2}         \* company pointers of Spec
SvcIDs == {"", "u1", "zz"}
SvcTickers == {"", "AAPL", "MSFT"}
SvcCash == {-1, 0, 2, MaxInt}
SvcPrices == {-1, 1, MaxInt}

\* companyService.CreateCompany(ticker, metrics, sector); an object no longer
\* referenced by the repository is garbage
CallCreateCompany(refs, ticker, sector) ==
    /\ AllIdle
    /\ CanAlloc(cheap, refs)
    /\ LET r == CreateCompany(cheap, companies, Alloc(cheap, refs), ticker,
                              FinancialMetrics(0, 0, 0, ZeroTime), sector, now)
       IN
        /\ companies' = r.cm
        /\ cheap' = Collect(r.ch, Range(r.cm))
        /\ ret' = [op |-> "CreateCompany", err |-> r.err, ref |-> r.ref,
                   amt |-> 0, key |-> ticker, prev |-> Null]
    /\ UNCHANGED <<heap, portfolios, now, concVars>>

\* portfolioService.CreatePortfolio(cashBalance, riskProfile)
CallCreatePortfolio(refs, cashBalance, riskProfile) ==
    /\ AllIdle
    /\ CanAlloc(heap, refs)
    /\ HasUUID(heap)
    /\ LET r == CreatePortfolio(heap, portfolios, Alloc(heap, refs), cashBalance,
                                riskProfile, now)
       IN
        /\ heap' = r.h
        /\ portfolios' = r.pm
        /\ ret' = [op |-> "CreatePortfolio", err |-> r.err, ref |-> r.ref,
                   amt |-> cashBalance.Amount,
                   key |-> IF r.err = Nil THEN r.h[r.ref].ID ELSE "",
                   prev |-> Null]
    /\ UNCHANGED <<cheap, companies, now, concVars>>

\* portfolioService.GetPortfolioDetails(portfolioID)
CallGetPortfolioDetails(portfolioID) ==
    /\ AllIdle
    /\ LET r == GetPortfolioDetails(portfolios, portfolioID) IN
        ret' = [op |-> "GetPortfolioDetails", err |-> r.err, ref |-> r.ref,
                amt |-> 0, key |-> portfolioID, prev |-> Null]
    /\ UNCHANGED <<heap, repoVars, now, concVars>>

\* portfolioService.AddPosition(portfolioID, companyTicker, shares, purchasePrice)
CallServiceAddPosition(portfolioID, companyTicker, shares, purchasePrice) ==
    /\ AllIdle
    /\ LET r == PortfolioService_AddPosition(heap, portfolios, companies,
                    portfolioID, companyTicker, shares, purchasePrice, now)
       IN
        /\ heap' = r.h
        /\ portfolios' = r.pm
        /\ ret' = [op |-> "PortfolioService.AddPosition", err |-> r.err,
                   ref |-> Null, amt |-> 0, key |-> portfolioID, prev |-> Null]
    /\ UNCHANGED <<cheap, companies, now, concVars>>

\* AdjustPosition that also charges (or refunds) the purchase price of the
\* shares added (or taken away) (mutant)
AdjustPosition_Charged(h, pm, portfolioID, companyTicker, newShares, t) ==
    IF portfolioID = "" THEN [h |-> h, pm |-> pm, err |-> Err("portfolioID cannot be empty")]
    ELSE IF companyTicker = ""
        THEN [h |-> h, pm |-> pm, err |-> Err("companyTicker cannot be empty")]
    ELSE IF newShares <= 0
        THEN [h |-> h, pm |-> pm,
              err |-> Err("new shares count must be positive; use RemovePosition to close")]
    ELSE LET g == GetPortfolioDetails(pm, portfolioID) IN
    IF g.err # Nil THEN [h |-> h, pm |-> pm, err |-> g.err]
    ELSE IF companyTicker \notin DOMAIN h[g.ref].Holdings
        THEN [h |-> h, pm |-> pm, err |-> Err("position for ticker not found in portfolio")]
    ELSE LET existingPosition == h[g.ref].Holdings[companyTicker]
             delta == Mul64(existingPosition.PurchasePrice.Amount,
                            newShares - existingPosition.Shares)
             h2 == [h EXCEPT ![g.ref].Holdings[companyTicker] =
                                [CompanyTicker |-> existingPosition.CompanyTicker,
                                 Shares |-> newShares,
                                 PurchasePrice |-> existingPosition.PurchasePrice],
                             ![g.ref].CashBalance.Amount = Sub64(@, delta),
                             ![g.ref].UpdatedAt = t]
             sv == PortfolioRepo_Save(pm, h2, g.ref)
         IN  IF sv.err # Nil
             THEN [h |-> h2, pm |-> sv.m,
                   err |-> Errorf("failed to save updated portfolio after adjusting position",
                                  sv.err)]
             ELSE [h |-> h2, pm |-> sv.m, err |-> Nil]

\* PortfolioService.AdjustPosition: [h, pm, err]
AdjustPosition(h, pm, portfolioID, companyTicker, newShares, t) ==
    IF portfolioID = "" THEN [h |-> h, pm |-> pm, err |-> Err("portfolioID cannot be empty")]
    ELSE IF companyTicker = ""
        THEN [h |-> h, pm |-> pm, err |-> Err("companyTicker cannot be empty")]
    ELSE IF newShares <= 0
        THEN [h |-> h, pm |-> pm,
              err |-> Err("new shares count must be positive; use RemovePosition to close")]
    ELSE LET g == GetPortfolioDetails(pm, portfolioID) IN
    IF g.err # Nil THEN [h |-> h, pm |-> pm, err |-> g.err]
    ELSE IF companyTicker \notin DOMAIN h[g.ref].Holdings
        THEN [h |-> h, pm |-> pm, err |-> Err("position for ticker not found in portfolio")]
    ELSE LET existingPosition == h[g.ref].Holdings[companyTicker]
             \* the holding is overwritten in the object FindByID returned
             h2 == [h EXCEPT ![g.ref].Holdings[companyTicker] =
                                [CompanyTicker |-> existingPosition.CompanyTicker,
                                 Shares |-> newShares,
                                 PurchasePrice |-> existingPosition.PurchasePrice],
                             ![g.ref].UpdatedAt = t]
             sv == PortfolioRepo_Save(pm, h2, g.ref)
         IN  IF sv.err # Nil
             THEN [h |-> h2, pm |-> sv.m,
                   err |-> Errorf("failed to save updated portfolio after adjusting position",
                                  sv.err)]
             ELSE [h |-> h2, pm |-> sv.m, err |-> Nil]

\* portfolioService.AdjustPosition(portfolioID, companyTicker, newShares)
CallAdjustPosition(portfolioID, companyTicker, newShares) ==
    /\ AllIdle
    /\ LET r == AdjustPosition(heap, portfolios, portfolioID, companyTicker,
                               newShares, now)
       IN
        /\ heap' = r.h
        /\ portfolios' = r.pm
        /\ ret' = [op |-> "AdjustPosition", err |-> r.err, ref |-> Null,
                   amt |-> newShares, key |-> portfolioID, prev |-> Null,
                   ticker |-> companyTicker]
    /\ UNCHANGED <<cheap, companies, now, concVars>>

Next ==
    \/ \E tk \in SvcTickers : CallCreateCompany(SvcCompanyRefs, tk, Technology)
    \/ \E id \in SvcIDs, tk \in SvcTickers, n \in ShareCounts :
            CallAdjustPosition(id, tk, n)
    \/ \E a \in SvcCash : CallCreatePortfolio(SvcRefs, Money(a, "USD"), Moderate)
    \/ \E id \in SvcIDs : CallGetPortfolioDetails(id)
    \/ \E id \in SvcIDs, tk \in SvcTickers, n \in ShareCounts, a \in SvcPrices :
            CallServiceAddPosition(id, tk, n, Money(a, "USD"))

Spec == Init /\ [][Next]_vars

(***************************************************************************)
(* C8: end to end through the services                                     *)
(***************************************************************************)
\* the stored portfolio id is as CreatePortfolio left it (nothing held yet)
\* and the company tk has been created
FreshlyCreated(id, tk) ==
    /\ tk \in DOMAIN companies
    /\ id \in DOMAIN portfolios
    /\ heap[portfolios[id]].Holdings = EmptyMap

\* what C8 promises of a step AddPosition(id, tk, n, a) that costs `cost`
\* out of the cash `cash`
EndToEndResult(id, tk, n, cash, cost) ==
    /\ ret'.err = Nil
    /\ portfolios' = portfolios
    /\ LET q == heap'[portfolios[id]] IN
        /\ q.CashBalance.Amount = cash - cost
        /\ DOMAIN q.Holdings = {tk}
        /\ q.Holdings[tk].Shares = n

\* C8: after CreateCompany(t) and CreatePortfolio(cash C), every
\* AddPosition(id, t, n, price P) with n > 0 and n*P <= C succeeds and leaves
\* the stored portfolio with cash C - n*P (as integers) and exactly one
\* holding, keyed t, of n shares.
C8_EndToEnd ==
    [][\A id \in SvcIDs, tk \in SvcTickers, n \in ShareCounts, a \in SvcPrices :
        (/\ n > 0
         /\ FreshlyCreated(id, tk)
         /\ n * a <= heap[portfolios[id]].CashBalance.Amount
         /\ CallServiceAddPosition(id, tk, n, Money(a, "USD")))
        => EndToEndResult(id, tk, n, heap[portfolios[id]].CashBalance.Amount, n * a)]_vars

\* C8 for prices that are not negative: the same promise holds
C8_EndToEndNonNegativePrice ==
    [][\A id \in SvcIDs, tk \in SvcTickers, n \in ShareCounts, a \in SvcPrices :
        (/\ n > 0
         /\ a >= 0
         /\ FreshlyCreated(id, tk)
         /\ n * a <= heap[portfolios[id]].CashBalance.Amount
         /\ CallServiceAddPosition(id, tk, n, Money(a, "USD")))
        => EndToEndResult(id, tk, n, heap[portfolios[id]].CashBalance.Amount, n * a)]_vars

\* an AddPosition of 2 shares at price 1 has just spent the whole cash 2 of a
\* freshly created portfolio
C8_Witness ==
    /\ ret.op = "PortfolioService.AddPosition"
    /\ ret.err = Nil
    /\ \E id \in DOMAIN portfolios :
        LET q == heap[portfolios[id]] IN
        /\ q.CashBalance.Amount = 0
        /\ DOMAIN q.Holdings = {"AAPL"}
        /\ q.Holdings["AAPL"].Shares = 2
        /\ q.Holdings["AAPL"].PurchasePrice.Amount = 1

\* C15: CompanyService.CreateCompany for a ticker that is already stored
\* fails with an 'already exists' error and leaves the previously stored
\* company (the object and its place in the repository) unchanged.
C15_CreateExistingRejected ==
    [][\A tk \in SvcTickers :
        (/\ tk \in DOMAIN companies
         /\ ret'.op = "CreateCompany"
         /\ CallCreateCompany(SvcCompanyRefs, tk, Technology))
        => /\ ret'.err # Nil
           /\ companies' = companies
           /\ cheap'[companies[tk]] = cheap[companies[tk]]]_vars

\* C17: AdjustPosition(id, ticker, newShares) on an existing holding sets
\* that holding's Shares to newShares, keeps its CompanyTicker and
\* PurchasePrice, leaves CashBalance and every other holding unchanged, and
\* saves the portfolio (the repository holds the adjusted object under id);
\* it fails with no state change when newShares <= 0, when the portfolio is
\* not found, or when the portfolio has no holding for ticker.
C17_AdjustPosition ==
    [][(ret'.op = "AdjustPosition"
        /\ CallAdjustPosition(ret'.key, ret'.ticker, ret'.amt))
       => LET id == ret'.key
              tk == ret'.ticker
              n == ret'.amt
              found == id \in DOMAIN portfolios
              held == found /\ tk \in DOMAIN heap[portfolios[id]].Holdings
          IN  /\ (n <= 0 \/ ~found \/ ~held)
                    => (ret'.err # Nil /\ heap' = heap /\ portfolios' = portfolios)
              /\ (n > 0 /\ held) =>
                    LET p == heap[portfolios[id]]
                        q == heap'[portfolios[id]]
                    IN  /\ ret'.err = Nil
                        /\ portfolios' = portfolios
                        /\ DOMAIN q.Holdings = DOMAIN p.Holdings
                        /\ q.Holdings[tk] = [p.Holdings[tk] EXCEPT !.Shares = n]
                        /\ q.Holdings[tk].CompanyTicker = tk
                        /\ \A k \in DOMAIN p.Holdings \ {tk} :
                                q.Holdings[k] = p.Holdings[k]
                        /\ q.CashBalance = p.CashBalance
                        /\ \A r \in DOMAIN heap \ {portfolios[id]} :
                                r \in DOMAIN heap' /\ heap'[r] = heap[r]]_vars

\* AdjustPosition has just raised a holding of 1 AAPL share bought at 1 to 2
\* shares while another ticker is held, and the cash 0 stayed 0
C17_Witness ==
    /\ ret.op = "AdjustPosition"
    /\ ret.err = Nil
    /\ ret.ticker = "AAPL"
    /\ LET q == heap[portfolios[ret.key]] IN
        /\ DOMAIN q.Holdings = {"AAPL", "MSFT"}
        /\ q.Holdings["AAPL"].Shares = 2
        /\ q.Holdings["AAPL"].PurchasePrice.Amount = 1
        /\ q.Holdings["MSFT"].Shares = 1
        /\ q.CashBalance.Amount = 0

(***************************************************************************)
(* Rebalancing through the service (SpecRebalance)                         *)
(***************************************************************************)
\* RebalanceRecommendation
Recommendation(portfolioID, suggestions) ==
    [PortfolioID |-> portfolioID, Suggestions |-> suggestions]

\* PortfolioService.RecommendRebalance: [rec, err]
RecommendRebalance(h, pm, portfolioID, t) ==
    IF portfolioID = ""
    THEN [rec |-> Null, err |-> Err("portfolioID cannot be empty")]
    ELSE LET g == GetPortfolioDetails(pm, portfolioID) IN
    IF g.err # Nil THEN [rec |-> Null, err |-> g.err]
    ELSE LET d == GenerateRebalanceRecommendations(h[g.ref], t) IN
    IF d.err # Nil
    THEN [rec |-> Null,
          err |-> Errorf("domain error generating rebalance recommendations", d.err)]
    ELSE [rec |-> Recommendation(portfolioID, d.recs), err |-> Nil]

\* PortfolioService.ExecuteRebalance: [h, pm, err]
ExecuteRebalance(h, pm, portfolioID, recommendation, t) ==
    IF portfolioID = ""
    THEN [h |-> h, pm |-> pm, err |-> Err("portfolioID cannot be empty")]
    ELSE IF recommendation.PortfolioID # portfolioID
    THEN [h |-> h, pm |-> pm,
          err |-> Err("recommendation portfolioID does not match provided portfolioID")]
    ELSE LET g == GetPortfolioDetails(pm, portfolioID) IN
    IF g.err # Nil THEN [h |-> h, pm |-> pm, err |-> g.err]
    ELSE LET h2 == [h EXCEPT ![g.ref].LastRebalanceTime = t,
                             ![g.ref].UpdatedAt = t]
             sv == PortfolioRepo_Save(pm, h2, g.ref)
         IN  IF sv.err # Nil
             THEN [h |-> h2, pm |-> sv.m,
                   err |-> Errorf("failed to save portfolio after executing rebalance",
                                  sv.err)]
             ELSE [h |-> h2, pm |-> sv.m, err |-> Nil]

RebalanceRefs == {1}                  \* portfolio and company pointers
RebalanceSteps == {30, 31}            \* days that pass between two calls
RebalanceCash == {2}
RebalanceRecommendations ==
    {Recommendation(id, sg) : id \in {"u1", "zz"},
                              sg \in {<<>>, <<"Recommendation: Sell X, Buy Y">>}}

\* days pass between two calls
RebalanceTick(d) ==
    /\ AllIdle
    /\ now + d <= MaxRebalanceNow
    /\ now' = now + d
    /\ UNCHANGED <<heap, repoVars, ret, concVars>>

\* portfolioService.RecommendRebalance(portfolioID)
CallRecommendRebalance(portfolioID) ==
    /\ AllIdle
    /\ LET r == RecommendRebalance(heap, portfolios, portfolioID, now) IN
        ret' = [op |-> "RecommendRebalance", err |-> r.err, ref |-> Null,
                amt |-> 0, key |-> portfolioID, prev |-> Null]
    /\ UNCHANGED <<heap, repoVars, now, concVars>>

\* portfolioService.ExecuteRebalance(portfolioID, recommendation)
CallExecuteRebalance(portfolioID, recommendation) ==
    /\ AllIdle
    /\ LET r == ExecuteRebalance(heap, portfolios, portfolioID, recommendation, now)
       IN
        /\ heap' = r.h
        /\ portfolios' = r.pm
        /\ ret' = [op |-> "ExecuteRebalance", err |-> r.err, ref |-> Null,
                   amt |-> 0, key |-> portfolioID, prev |-> Null]
    /\ UNCHANGED <<cheap, companies, now, concVars>>

\* ok := heap[ref].CheckRebalanceTrigger()
CallCheckRebalanceTrigger(ref) ==
    /\ AllIdle
    /\ ref \in DOMAIN heap
    /\ ret' = [op |-> "CheckRebalanceTrigger", err |-> Nil, ref |-> ref,
               amt |-> 0, key |-> heap[ref].ID, prev |-> Null,
               ok |-> CheckRebalanceTrigger(heap[ref], now)]
    /\ UNCHANGED <<heap, repoVars, now, concVars>>

\* recs, err := heap[ref].GenerateRebalanceRecommendations()
CallGenerateRebalanceRecommendations(ref) ==
    /\ AllIdle
    /\ ref \in DOMAIN heap
    /\ LET r == GenerateRebalanceRecommendations(heap[ref], now) IN
        ret' = [op |-> "GenerateRebalanceRecommendations", err |-> r.err,
                ref |-> ref, amt |-> 0, key |-> heap[ref].ID, prev |-> Null,
                recs |-> r.recs]
    /\ UNCHANGED <<heap, repoVars, now, concVars>>

RebalanceNext ==
    \/ \E d \in RebalanceSteps : RebalanceTick(d)
    \/ \E ref \in RebalanceRefs : CallCheckRebalanceTrigger(ref)
    \/ \E ref \in RebalanceRefs : CallGenerateRebalanceRecommendations(ref)
    \/ CallCreateCompany(RebalanceRefs, "AAPL", Technology)
    \/ \E a \in RebalanceCash : CallCreatePortfolio(RebalanceRefs, Money(a, "USD"), Moderate)
    \/ \E n \in {1, 2} : CallServiceAddPosition("u1", "AAPL", n, Money(1, "USD"))
    \/ \E id \in SvcIDs : CallRecommendRebalance(id)
    \/ \E id \in SvcIDs, rec \in RebalanceRecommendations :
            CallExecuteRebalance(id, rec)

SpecRebalance == Init /\ [][RebalanceNext]_vars

NotTriggered == Err("rebalance not currently triggered")

\* C10: a successful ExecuteRebalance(id, rec) sets the stored portfolio's
\* LastRebalanceTime and UpdatedAt to the current time and changes nothing
\* else, whatever rec suggests; RecommendRebalance(id) succeeds on a portfolio
\* never rebalanced, fails with 'rebalance not currently triggered' up to and
\* including 90 days after the last ExecuteRebalance and succeeds once more
\* than 90 days have passed.
C10_RebalanceStamp ==
    [][/\ \A id \in SvcIDs, rec \in RebalanceRecommendations :
            (ret'.op = "ExecuteRebalance" /\ ret'.err = Nil
             /\ CallExecuteRebalance(id, rec))
            => /\ id \in DOMAIN portfolios
               /\ portfolios' = portfolios
               /\ heap' = [heap EXCEPT
                            ![portfolios[id]] =
                                [@ EXCEPT !.LastRebalanceTime = now,
                                          !.UpdatedAt = now]]
       /\ \A id \in SvcIDs :
            (ret'.op = "RecommendRebalance" /\ id \in DOMAIN portfolios
             /\ CallRecommendRebalance(id))
            => LET last == heap[portfolios[id]].LastRebalanceTime IN
               /\ last = ZeroTime => ret'.err = Nil
               /\ (last # ZeroTime /\ now - last <= RebalanceDays)
                    => Is(ret'.err, NotTriggered)
               /\ (last # ZeroTime /\ now - last > RebalanceDays)
                    => ret'.err = Nil]_vars

\* a RecommendRebalance has just succeeded 91 days after the ExecuteRebalance
\* that stamped a portfolio holding a position
C10_Witness ==
    /\ ret.op = "RecommendRebalance"
    /\ ret.err = Nil
    /\ ret.key \in DOMAIN portfolios
    /\ LET p == heap[portfolios[ret.key]] IN
        /\ p.LastRebalanceTime # ZeroTime
        /\ now - p.LastRebalanceTime = RebalanceDays + 1
        /\ p.Holdings # EmptyMap

\* a RecommendRebalance has just failed exactly 90 days after the
\* ExecuteRebalance
C10_WitnessNinetyDays ==
    /\ ret.op = "RecommendRebalance"
    /\ Is(ret.err, NotTriggered)
    /\ ret.key \in DOMAIN portfolios
    /\ now - heap[portfolios[ret.key]].LastRebalanceTime = RebalanceDays

\* C11: CheckRebalanceTrigger() is true iff LastRebalanceTime is zero or
\* strictly more than 90 days before now (exactly 90 days is false);
\* GenerateRebalanceRecommendations() returns a non-empty list and no error
\* iff CheckRebalanceTrigger() is true, otherwise the 'not triggered' error;
\* neither call modifies the portfolio.
C11_TriggerContract ==
    [][\A ref \in RebalanceRefs :
        LET last == heap[ref].LastRebalanceTime
            due == last = ZeroTime \/ now - last > RebalanceDays
        IN
        /\ (ref \in DOMAIN heap /\ CallCheckRebalanceTrigger(ref))
            => /\ ret'.ok <=> due
               /\ heap' = heap
        /\ (ref \in DOMAIN heap /\ CallGenerateRebalanceRecommendations(ref))
            => /\ due => (ret'.err = Nil /\ ret'.recs # <<>>)
               /\ ~due => ret'.err = NotTriggered
               /\ heap' = heap]_vars

\* GenerateRebalanceRecommendations has just refused a portfolio rebalanced
\* exactly 90 days ago
C11_Witness ==
    /\ ret.op = "GenerateRebalanceRecommendations"
    /\ ret.err = NotTriggered
    /\ heap[ret.ref].LastRebalanceTime # ZeroTime
    /\ now - heap[ret.ref].LastRebalanceTime = RebalanceDays

\* CheckRebalanceTrigger has just returned true 91 days after the rebalance
C11_WitnessDue ==
    /\ ret.op = "CheckRebalanceTrigger"
    /\ ret.ok
    /\ heap[ret.ref].LastRebalanceTime # ZeroTime
    /\ now - heap[ret.ref].LastRebalanceTime = RebalanceDays + 1

(***************************************************************************)
(* Goroutines.  A call made on a goroutine runs statement by statement:    *)
(* pc[g] names the statement g executes next, loc[g] holds its arguments   *)
(* and locals, loc[g].after the statement its current repository call      *)
(* returns to.  A goroutine runs one call and is then "done".  The calls   *)
(* above (Call...) run while no goroutine is running.                      *)
(***************************************************************************)
AllDone == \A g \in Threads : pc[g] = "done"

\* g is about to execute the statement label; a crashed process runs nothing
At(g, label) == fault = "none" /\ pc[g] = label
Goto(g, label) == pc' = [pc EXCEPT ![g] = label]
\* the call returns e to its caller
Return(g, e) ==
    /\ pc' = [pc EXCEPT ![g] = loc[g].after]
    /\ loc' = [loc EXCEPT ![g].err = e]
\* the goroutine's call returns e
Finish(g, e) ==
    /\ pc' = [pc EXCEPT ![g] = "done"]
    /\ loc' = [loc EXCEPT ![g].err = e]

\* the stored state when the first of the goroutines was started
Snapshot == [h |-> heap, pm |-> portfolios, ch |-> cheap, cm |-> companies]
PreState ==
    IF \E o \in Threads : pc[o] # "idle"
    THEN loc[CHOOSE o \in Threads : pc[o] # "idle"].pre
    ELSE Snapshot
\* go f(args): g starts at statement label with locals l
Go(g, label, l) ==
    /\ fault = "none"
    /\ pc[g] = "idle"
    /\ pc' = [pc EXCEPT ![g] = label]
    /\ loc' = [loc EXCEPT ![g] = [l EXCEPT !.pre = PreState]]
    /\ ret' = NoCall
    /\ UNCHANGED <<heap, repoVars, now, pMu, cMu, fault>>

(***************************************************************************)
(* sync.RWMutex: writer is the goroutine inside Lock() or holding the      *)
(* lock (a pending Lock excludes new readers), readers hold RLock          *)
(***************************************************************************)
CanRLock(mu) == mu.writer = ""
RLock(mu, g) == [mu EXCEPT !.readers = @ \cup {g}]
RUnlock(mu, g) == [mu EXCEPT !.readers = @ \ {g}]
CanLock(mu) == mu.writer = ""
Lock(mu, g) == [mu EXCEPT !.writer = g]
\* Lock() returns once the readers have left
Locked(mu, g) == mu.writer = g /\ mu.readers = {}
Unlock(mu, g) == [mu EXCEPT !.writer = ""]

(***************************************************************************)
(* InMemoryPortfolioRepository, statement by statement                     *)
(***************************************************************************)
\* Save: the nil and ID checks, then r.mu.Lock() begins
PortfolioSave_Lock(g) ==
    /\ At(g, "PortfolioRepo.Save")
    /\ IF loc[g].ref = Null
       THEN Return(g, Err("portfolio cannot be nil")) /\ UNCHANGED pMu
       ELSE IF heap[loc[g].ref].ID = ""
       THEN Return(g, Err("portfolio ID cannot be empty")) /\ UNCHANGED pMu
       ELSE /\ CanLock(pMu)
            /\ pMu' = Lock(pMu, g)
            /\ Goto(g, "PortfolioRepo.Save.wait")
            /\ UNCHANGED loc
    /\ UNCHANGED <<heap, repoVars, now, ret, cMu, fault>>

\* Save: r.mu.Lock() that does not wait for the readers to leave (mutant)
PortfolioSave_Wait_NoWait(g) ==
    /\ At(g, "PortfolioRepo.Save.wait")
    /\ Goto(g, "PortfolioRepo.Save.store")
    /\ UNCHANGED <<heap, repoVars, now, ret, loc, pMu, cMu, fault>>

\* Save: r.mu.Lock() returns
PortfolioSave_Wait(g) ==
    /\ At(g, "PortfolioRepo.Save.wait")
    /\ Locked(pMu, g)
    /\ Goto(g, "PortfolioRepo.Save.store")
    /\ UNCHANGED <<heap, repoVars, now, ret, loc, pMu, cMu, fault>>

\* Save: r.portfolios[p.ID] = p
PortfolioSave_Store(g) ==
    /\ At(g, "PortfolioRepo.Save.store")
    /\ portfolios' = PortfolioRepo_Save(portfolios, heap, loc[g].ref).m
    /\ Goto(g, "PortfolioRepo.Save.unlock")
    /\ UNCHANGED <<heap, cheap, companies, now, ret, loc, pMu, cMu, fault>>

\* Save: the deferred r.mu.Unlock() and return nil
PortfolioSave_Unlock(g) ==
    /\ At(g, "PortfolioRepo.Save.unlock")
    /\ pMu' = Unlock(pMu, g)
    /\ Return(g, Nil)
    /\ UNCHANGED <<heap, repoVars, now, ret, cMu, fault>>

\* FindByID: the ID check, then r.mu.RLock()
PortfolioFind_RLock(g) ==
    /\ At(g, "PortfolioRepo.FindByID")
    /\ IF loc[g].id = ""
       THEN /\ pc' = [pc EXCEPT ![g] = loc[g].after]
            /\ loc' = [loc EXCEPT ![g].ref = Null,
                                  ![g].err = Err("portfolio ID cannot be empty")]
            /\ UNCHANGED pMu
       ELSE /\ CanRLock(pMu)
            /\ pMu' = RLock(pMu, g)
            /\ Goto(g, "PortfolioRepo.FindByID.read")
            /\ UNCHANGED loc
    /\ UNCHANGED <<heap, repoVars, now, ret, cMu, fault>>

CopyRefs == {1, 2, 3}
\* FindByID that hands out a copy of the stored object (mutant)
PortfolioFind_Read_Copy(g) ==
    /\ At(g, "PortfolioRepo.FindByID.read")
    /\ LET r == PortfolioRepo_FindByID(portfolios, loc[g].id) IN
        IF r.ref = Null
        THEN /\ loc' = [loc EXCEPT ![g].ref = r.ref, ![g].err = r.err]
             /\ UNCHANGED heap
        ELSE /\ CanAlloc(heap, CopyRefs)
             /\ heap' = Put(heap, Alloc(heap, CopyRefs), heap[r.ref])
             /\ loc' = [loc EXCEPT ![g].ref = Alloc(heap, CopyRefs), ![g].err = r.err]
    /\ Goto(g, "PortfolioRepo.FindByID.runlock")
    /\ UNCHANGED <<repoVars, now, ret, pMu, cMu, fault>>

\* FindByID: portfolio, exists := r.portfolios[id]
PortfolioFind_Read(g) ==
    /\ At(g, "PortfolioRepo.FindByID.read")
    /\ LET r == PortfolioRepo_FindByID(portfolios, loc[g].id) IN
        loc' = [loc EXCEPT ![g].ref = r.ref, ![g].err = r.err]
    /\ Goto(g, "PortfolioRepo.FindByID.runlock")
    /\ UNCHANGED <<heap, repoVars, now, ret, pMu, cMu, fault>>

\* FindByID: the deferred r.mu.RUnlock() and return
PortfolioFind_RUnlock(g) ==
    /\ At(g, "PortfolioRepo.FindByID.runlock")
    /\ pMu' = RUnlock(pMu, g)
    /\ Goto(g, loc[g].after)
    /\ UNCHANGED <<heap, repoVars, now, ret, loc, cMu, fault>>

\* Delete: the ID check, then r.mu.Lock() begins
PortfolioDelete_Lock(g) ==
    /\ At(g, "PortfolioRepo.Delete")
    /\ IF loc[g].id = ""
       THEN Return(g, Err("portfolio ID cannot be empty")) /\ UNCHANGED pMu
       ELSE /\ CanLock(pMu)
            /\ pMu' = Lock(pMu, g)
            /\ Goto(g, "PortfolioRepo.Delete.wait")
            /\ UNCHANGED loc
    /\ UNCHANGED <<heap, repoVars, now, ret, cMu, fault>>

\* Delete: r.mu.Lock() returns
PortfolioDelete_Wait(g) ==
    /\ At(g, "PortfolioRepo.Delete.wait")
    /\ Locked(pMu, g)
    /\ Goto(g, "PortfolioRepo.Delete.body")
    /\ UNCHANGED <<heap, repoVars, now, ret, loc, pMu, cMu, fault>>

\* Delete: the existence test and delete(r.portfolios, id)
PortfolioDelete_Body(g) ==
    /\ At(g, "PortfolioRepo.Delete.body")
    /\ LET r == PortfolioRepo_Delete(portfolios, loc[g].id) IN
        /\ portfolios' = r.m
        /\ loc' = [loc EXCEPT ![g].err = r.err]
    /\ Goto(g, "PortfolioRepo.Delete.unlock")
    /\ UNCHANGED <<heap, cheap, companies, now, ret, pMu, cMu, fault>>

\* Delete: the deferred r.mu.Unlock() and return
PortfolioDelete_Unlock(g) ==
    /\ At(g, "PortfolioRepo.Delete.unlock")
    /\ pMu' = Unlock(pMu, g)
    /\ Goto(g, loc[g].after)
    /\ UNCHANGED <<heap, repoVars, now, ret, loc, cMu, fault>>

(***************************************************************************)
(* InMemoryCompanyRepository, statement by statement                       *)
(***************************************************************************)
\* Save: the nil and ticker checks, then r.mu.Lock() begins
CompanySave_Lock(g) ==
    /\ At(g, "CompanyRepo.Save")
    /\ IF loc[g].cref = Null
       THEN Return(g, Err("company cannot be nil")) /\ UNCHANGED cMu
       ELSE IF cheap[loc[g].cref].Ticker = ""
       THEN Return(g, Err("company ticker cannot be empty")) /\ UNCHANGED cMu
       ELSE /\ CanLock(cMu)
            /\ cMu' = Lock(cMu, g)
            /\ Goto(g, "CompanyRepo.Save.wait")
            /\ UNCHANGED loc
    /\ UNCHANGED <<heap, repoVars, now, ret, pMu, fault>>

\* Save: r.mu.Lock() returns
CompanySave_Wait(g) ==
    /\ At(g, "CompanyRepo.Save.wait")
    /\ Locked(cMu, g)
    /\ Goto(g, "CompanyRepo.Save.store")
    /\ UNCHANGED <<heap, repoVars, now, ret, loc, pMu, cMu, fault>>

\* Save: r.companies[c.Ticker] = c
CompanySave_Store(g) ==
    /\ At(g, "CompanyRepo.Save.store")
    /\ companies' = CompanyRepo_Save(companies, cheap, loc[g].cref).m
    /\ Goto(g, "CompanyRepo.Save.unlock")
    /\ UNCHANGED <<heap, portfolios, cheap, now, ret, loc, pMu, cMu, fault>>

\* Save: the deferred r.mu.Unlock() and return nil
CompanySave_Unlock(g) ==
    /\ At(g, "CompanyRepo.Save.unlock")
    /\ cMu' = Unlock(cMu, g)
    /\ Return(g, Nil)
    /\ UNCHANGED <<heap, repoVars, now, ret, pMu, fault>>

\* FindByTicker: the ticker check, then r.mu.RLock()
CompanyFind_RLock(g) ==
    /\ At(g, "CompanyRepo.FindByTicker")
    /\ IF loc[g].ticker = ""
       THEN /\ pc' = [pc EXCEPT ![g] = loc[g].after]
            /\ loc' = [loc EXCEPT ![g].cref = Null,
                                  ![g].err = Err("ticker cannot be empty")]
            /\ UNCHANGED cMu
       ELSE /\ CanRLock(cMu)
            /\ cMu' = RLock(cMu, g)
            /\ Goto(g, "CompanyRepo.FindByTicker.read")
            /\ UNCHANGED loc
    /\ UNCHANGED <<heap, repoVars, now, ret, pMu, fault>>

\* FindByTicker: company, exists := r.companies[ticker]
CompanyFind_Read(g) ==
    /\ At(g, "CompanyRepo.FindByTicker.read")
    /\ LET r == CompanyRepo_FindByTicker(companies, loc[g].ticker) IN
        loc' = [loc EXCEPT ![g].cref = r.ref, ![g].err = r.err]
    /\ Goto(g, "CompanyRepo.FindByTicker.runlock")
    /\ UNCHANGED <<heap, repoVars, now, ret, pMu, cMu, fault>>

\* FindByTicker: the deferred r.mu.RUnlock() and return
CompanyFind_RUnlock(g) ==
    /\ At(g, "CompanyRepo.FindByTicker.runlock")
    /\ cMu' = RUnlock(cMu, g)
    /\ Goto(g, loc[g].after)
    /\ UNCHANGED <<heap, repoVars, now, ret, loc, pMu, fault>>

\* Delete: the ticker check, then r.mu.Lock() begins
CompanyDelete_Lock(g) ==
    /\ At(g, "CompanyRepo.Delete")
    /\ IF loc[g].ticker = ""
       THEN Return(g, Err("ticker cannot be empty")) /\ UNCHANGED cMu
       ELSE /\ CanLock(cMu)
            /\ cMu' = Lock(cMu, g)
            /\ Goto(g, "CompanyRepo.Delete.wait")
            /\ UNCHANGED loc
    /\ UNCHANGED <<heap, repoVars, now, ret, pMu, fault>>

\* Delete: r.mu.Lock() returns
CompanyDelete_Wait(g) ==
    /\ At(g, "CompanyRepo.Delete.wait")
    /\ Locked(cMu, g)
    /\ Goto(g, "CompanyRepo.Delete.body")
    /\ UNCHANGED <<heap, repoVars, now, ret, loc, pMu, cMu, fault>>

\* Delete: the existence test and delete(r.companies, ticker)
CompanyDelete_Body(g) ==
    /\ At(g, "CompanyRepo.Delete.body")
    /\ LET r == CompanyRepo_Delete(companies, loc[g].ticker) IN
        /\ companies' = r.m
        /\ loc' = [loc EXCEPT ![g].err = r.err]
    /\ Goto(g, "CompanyRepo.Delete.unlock")
    /\ UNCHANGED <<heap, portfolios, cheap, now, ret, pMu, cMu, fault>>

\* Delete: the deferred r.mu.Unlock() and return
CompanyDelete_Unlock(g) ==
    /\ At(g, "CompanyRepo.Delete.unlock")
    /\ cMu' = Unlock(cMu, g)
    /\ Goto(g, loc[g].after)
    /\ UNCHANGED <<heap, repoVars, now, ret, loc, pMu, fault>>

(***************************************************************************)
(* InMemoryPortfolioRepository.SearchBySector, statement by statement.     *)
(* Go ranges over a map in an unspecified order.                           *)
(***************************************************************************)
\* r.mu.RLock() that takes no lock (mutant)
SearchBySector_RLock_None(g) ==
    /\ At(g, "PortfolioRepo.SearchBySector")
    /\ loc' = [loc EXCEPT ![g].todo = DOMAIN portfolios, ![g].seen = {},
                          ![g].results = <<>>]
    /\ Goto(g, "PortfolioRepo.SearchBySector.portfolios")
    /\ UNCHANGED <<heap, repoVars, now, ret, pMu, cMu, fault>>

\* r.mu.RLock(); the range over r.portfolios begins
SearchBySector_RLock(g) ==
    /\ At(g, "PortfolioRepo.SearchBySector")
    /\ CanRLock(pMu)
    /\ pMu' = RLock(pMu, g)
    /\ loc' = [loc EXCEPT ![g].todo = DOMAIN portfolios, ![g].seen = {},
                          ![g].results = <<>>]
    /\ Goto(g, "PortfolioRepo.SearchBySector.portfolios")
    /\ UNCHANGED <<heap, repoVars, now, ret, cMu, fault>>

\* for _, p := range r.portfolios: the next portfolio, or the end of the loop
SearchBySector_NextPortfolio(g) ==
    /\ At(g, "PortfolioRepo.SearchBySector.portfolios")
    /\ \/ /\ loc[g].todo \cap DOMAIN portfolios = {}
          /\ Goto(g, "PortfolioRepo.SearchBySector.runlock")
          /\ UNCHANGED loc
       \/ \E id \in loc[g].todo \cap DOMAIN portfolios :
            IF heap[portfolios[id]].ID \in loc[g].seen
            THEN \* if seenPortfolios[p.ID] { continue }
                 /\ loc' = [loc EXCEPT ![g].todo = @ \ {id}]
                 /\ UNCHANGED pc
            ELSE /\ loc' = [loc EXCEPT
                                ![g].todo = @ \ {id},
                                ![g].ref = portfolios[id],
                                ![g].hold = DOMAIN heap[portfolios[id]].Holdings]
                 /\ Goto(g, "PortfolioRepo.SearchBySector.holdings")
    /\ UNCHANGED <<heap, repoVars, now, ret, pMu, cMu, fault>>

\* for _, holding := range p.Holdings: the call of FindByTicker for the next
\* holding, or the end of the loop
SearchBySector_NextHolding(g) ==
    /\ At(g, "PortfolioRepo.SearchBySector.holdings")
    /\ LET held == loc[g].hold \cap DOMAIN heap[loc[g].ref].Holdings IN
       \/ /\ held = {}
          /\ Goto(g, "PortfolioRepo.SearchBySector.portfolios")
          /\ UNCHANGED loc
       \/ \E tk \in held :
            /\ loc' = [loc EXCEPT
                        ![g].hold = @ \ {tk},
                        ![g].ticker = heap[loc[g].ref].Holdings[tk].CompanyTicker,
                        ![g].after = "PortfolioRepo.SearchBySector.found"]
            /\ Goto(g, "CompanyRepo.FindByTicker")
    /\ UNCHANGED <<heap, repoVars, now, ret, pMu, cMu, fault>>

\* SearchBySector that appends the portfolio for a matching holding and
\* goes on with the portfolio's other holdings (mutant)
SearchBySector_Found_NoBreak(g) ==
    /\ At(g, "PortfolioRepo.SearchBySector.found")
    /\ IF loc[g].err # Nil
       THEN /\ loc' = [loc EXCEPT ![g].err = Nil, ![g].after = "done"]
            /\ Goto(g, "PortfolioRepo.SearchBySector.holdings")
       ELSE IF cheap[loc[g].cref].Sector = loc[g].sector
       THEN /\ loc' = [loc EXCEPT ![g].results = Append(@, loc[g].ref),
                                  ![g].after = "done"]
            /\ Goto(g, "PortfolioRepo.SearchBySector.holdings")
       ELSE /\ loc' = [loc EXCEPT ![g].after = "done"]
            /\ Goto(g, "PortfolioRepo.SearchBySector.holdings")
    /\ UNCHANGED <<heap, repoVars, now, ret, pMu, cMu, fault>>

\* FindByTicker has returned: skip the holding on an error, take the
\* portfolio if comp.Sector == sector
SearchBySector_Found(g) ==
    /\ At(g, "PortfolioRepo.SearchBySector.found")
    /\ IF loc[g].err # Nil
       THEN /\ loc' = [loc EXCEPT ![g].err = Nil, ![g].after = "done"]
            /\ Goto(g, "PortfolioRepo.SearchBySector.holdings")
       ELSE IF cheap[loc[g].cref].Sector = loc[g].sector
       THEN /\ loc' = [loc EXCEPT
                        ![g].results = Append(@, loc[g].ref),
                        ![g].seen = @ \cup {heap[loc[g].ref].ID},
                        ![g].after = "done"]
            /\ Goto(g, "PortfolioRepo.SearchBySector.portfolios")
       ELSE /\ loc' = [loc EXCEPT ![g].after = "done"]
            /\ Goto(g, "PortfolioRepo.SearchBySector.holdings")
    /\ UNCHANGED <<heap, repoVars, now, ret, pMu, cMu, fault>>

\* SearchBySector that returns without releasing the read lock (mutant)
SearchBySector_RUnlock_Leak(g) ==
    /\ At(g, "PortfolioRepo.SearchBySector.runlock")
    /\ Return(g, Nil)
    /\ UNCHANGED <<heap, repoVars, now, ret, pMu, cMu, fault>>

\* the deferred r.mu.RUnlock() and return results, nil
SearchBySector_RUnlock(g) ==
    /\ At(g, "PortfolioRepo.SearchBySector.runlock")
    /\ pMu' = RUnlock(pMu, g)
    /\ Return(g, Nil)
    /\ UNCHANGED <<heap, repoVars, now, ret, cMu, fault>>

(***************************************************************************)
(* Concurrent calls of the repositories (SpecRepoConc)                     *)
(***************************************************************************)
\* go portfolioRepo.Save(p)
GoPortfolioSave(g, ref) ==
    /\ ref \in DOMAIN heap
    /\ Go(g, "PortfolioRepo.Save", [Locals0 EXCEPT !.op = "PortfolioRepo.Save", !.ref = ref])

\* go portfolioRepo.FindByID(id)
GoPortfolioFindByID(g, id) ==
    Go(g, "PortfolioRepo.FindByID", [Locals0 EXCEPT !.op = "PortfolioRepo.FindByID", !.id = id])

\* go portfolioRepo.Delete(id)
GoPortfolioDelete(g, id) ==
    Go(g, "PortfolioRepo.Delete", [Locals0 EXCEPT !.op = "PortfolioRepo.Delete", !.id = id])

\* go portfolioRepo.SearchBySector(sector); r.companyRepo is not nil
GoSearchBySector(g, sector) ==
    Go(g, "PortfolioRepo.SearchBySector",
       [Locals0 EXCEPT !.op = "PortfolioRepo.SearchBySector", !.sector = sector])

\* go companyRepo.Save(c)
GoCompanySave(g, ref) ==
    /\ ref \in DOMAIN cheap
    /\ Go(g, "CompanyRepo.Save", [Locals0 EXCEPT !.op = "CompanyRepo.Save", !.cref = ref])

\* go companyRepo.FindByTicker(ticker)
GoCompanyFindByTicker(g, ticker) ==
    Go(g, "CompanyRepo.FindByTicker",
       [Locals0 EXCEPT !.op = "CompanyRepo.FindByTicker", !.ticker = ticker])

\* go companyRepo.Delete(ticker)
GoCompanyDelete(g, ticker) ==
    Go(g, "CompanyRepo.Delete", [Locals0 EXCEPT !.op = "CompanyRepo.Delete", !.ticker = ticker])

ConcRefs == {1, 2, 3}            \* portfolio pointers of SpecRepoConc
ConcCompanyRefs == {1}
ConcIDs == {"p1", "p2"}
ConcPosition ==
    [CompanyTicker |-> "AAPL", Shares |-> 1, PurchasePrice |-> Money(1, "USD")]

PortfolioRepoSteps(g) ==
    \/ PortfolioSave_Lock(g)
    \/ PortfolioSave_Wait(g)
    \/ PortfolioSave_Store(g)
    \/ PortfolioSave_Unlock(g)
    \/ PortfolioFind_RLock(g)
    \/ PortfolioFind_Read(g)
    \/ PortfolioFind_RUnlock(g)

CompanyFindSteps(g) ==
    \/ CompanyFind_RLock(g)
    \/ CompanyFind_Read(g)
    \/ CompanyFind_RUnlock(g)

RepoConcNext ==
    \/ \E id \in ConcIDs : CallNewPortfolio(ConcRefs, id, Moderate, Money(1, "USD"))
    \/ CallAddPosition(1, ConcPosition, Money(1, "USD"))
    \/ CallNewCompany(ConcCompanyRefs, "AAPL", Technology)
    \/ \E r \in ConcRefs : CallPortfolioSave(r)
    \/ \E r \in ConcCompanyRefs : CallCompanySave(r)
    \/ \E g \in Threads, r \in ConcRefs : GoPortfolioSave(g, r)
    \/ \E g \in Threads : GoPortfolioFindByID(g, "p1")
    \/ \E g \in Threads : GoPortfolioDelete(g, "p1")
    \/ \E g \in Threads : GoSearchBySector(g, Technology)
    \/ \E g \in Threads, r \in ConcCompanyRefs : GoCompanySave(g, r)
    \/ \E g \in Threads : GoCompanyFindByTicker(g, "AAPL")
    \/ \E g \in Threads : GoCompanyDelete(g, "AAPL")
    \/ \E g \in Threads : PortfolioRepoSteps(g)
    \/ \E g \in Threads : PortfolioDelete_Lock(g)
    \/ \E g \in Threads : PortfolioDelete_Wait(g)
    \/ \E g \in Threads : PortfolioDelete_Body(g)
    \/ \E g \in Threads : PortfolioDelete_Unlock(g)
    \/ \E g \in Threads : SearchBySector_RLock(g)
    \/ \E g \in Threads : SearchBySector_NextPortfolio(g)
    \/ \E g \in Threads : SearchBySector_NextHolding(g)
    \/ \E g \in Threads : SearchBySector_Found(g)
    \/ \E g \in Threads : SearchBySector_RUnlock(g)
    \/ \E g \in Threads : CompanyFindSteps(g)
    \/ \E g \in Threads : CompanySave_Lock(g)
    \/ \E g \in Threads : CompanySave_Wait(g)
    \/ \E g \in Threads : CompanySave_Store(g)
    \/ \E g \in Threads : CompanySave_Unlock(g)
    \/ \E g \in Threads : CompanyDelete_Lock(g)
    \/ \E g \in Threads : CompanyDelete_Wait(g)
    \/ \E g \in Threads : CompanyDelete_Body(g)
    \/ \E g \in Threads : CompanyDelete_Unlock(g)

SpecRepoConc == Init /\ [][RepoConcNext]_vars

(***************************************************************************)
(* C4: the repositories' maps are accessed under their locks               *)
(***************************************************************************)
\* g is inside the critical section of a write / of a read of the map
InPortfolioWrite(g) ==
    pc[g] \in {"PortfolioRepo.Save.store", "PortfolioRepo.Save.unlock",
               "PortfolioRepo.Delete.body", "PortfolioRepo.Delete.unlock"}
InSearch(g) ==
    \/ pc[g] \in {"PortfolioRepo.SearchBySector.portfolios",
                  "PortfolioRepo.SearchBySector.holdings",
                  "PortfolioRepo.SearchBySector.found",
                  "PortfolioRepo.SearchBySector.runlock"}
    \/ /\ loc[g].op = "PortfolioRepo.SearchBySector"
       /\ pc[g] \in {"CompanyRepo.FindByTicker", "CompanyRepo.FindByTicker.read",
                     "CompanyRepo.FindByTicker.runlock"}
InPortfolioRead(g) ==
    \/ pc[g] \in {"PortfolioRepo.FindByID.read", "PortfolioRepo.FindByID.runlock"}
    \/ InSearch(g)
InCompanyWrite(g) ==
    pc[g] \in {"CompanyRepo.Save.store", "CompanyRepo.Save.unlock",
               "CompanyRepo.Delete.body", "CompanyRepo.Delete.unlock"}
InCompanyRead(g) ==
    pc[g] \in {"CompanyRepo.FindByTicker.read", "CompanyRepo.FindByTicker.runlock"}

\* after the goroutines' calls the map m (pre before them) holds under key k
\* one of the pointers `saved` for k, or nothing if k was deleted, and is as
\* before under a key no call wrote
OneWriteWins(m, pre, k, saved, deleted) ==
    /\ (saved # {} /\ ~deleted) => (k \in DOMAIN m /\ m[k] \in saved)
    /\ (saved # {} /\ deleted) => (k \in DOMAIN m => m[k] \in saved)
    /\ (saved = {} /\ deleted) => k \notin DOMAIN m
    /\ (saved = {} /\ ~deleted) =>
            /\ k \in DOMAIN m <=> k \in DOMAIN pre
            /\ k \in DOMAIN m => m[k] = pre[k]

\* C4: a goroutine reads a repository's map only while it holds that
\* repository's read lock and writes it only while it holds the write lock,
\* alone (no other goroutine is reading or writing that map); after the
\* concurrent calls every key holds one of the values saved for it (or, for a
\* key deleted meanwhile, nothing) and the other keys are as before.
C4_MapUnderLock ==
    /\ \A g \in Threads :
        /\ InPortfolioWrite(g) =>
            /\ pMu.writer = g /\ pMu.readers = {}
            /\ \A o \in Threads \ {g} : ~InPortfolioWrite(o) /\ ~InPortfolioRead(o)
        /\ InPortfolioRead(g) => g \in pMu.readers
        /\ InCompanyWrite(g) =>
            /\ cMu.writer = g /\ cMu.readers = {}
            /\ \A o \in Threads \ {g} : ~InCompanyWrite(o) /\ ~InCompanyRead(o)
        /\ InCompanyRead(g) => g \in cMu.readers
    /\ AllDone =>
        LET pre == loc[CHOOSE g \in Threads : TRUE].pre IN
        /\ \A k \in ConcIDs :
            OneWriteWins(portfolios, pre.pm, k,
                {loc[g].ref : g \in {o \in Threads :
                    /\ loc[o].op = "PortfolioRepo.Save"
                    /\ heap[loc[o].ref].ID = k}},
                \E g \in Threads : loc[g].op = "PortfolioRepo.Delete" /\ loc[g].id = k)
        /\ \A k \in {"AAPL"} :
            OneWriteWins(companies, pre.cm, k,
                {loc[g].cref : g \in {o \in Threads :
                    /\ loc[o].op = "CompanyRepo.Save"
                    /\ cheap[loc[o].cref].Ticker = k}},
                \E g \in Threads : loc[g].op = "CompanyRepo.Delete" /\ loc[g].ticker = k)

\* two goroutines have saved two different portfolios under the same ID,
\* while another ID was stored
C4_Witness ==
    /\ AllDone
    /\ \A g \in Threads : loc[g].op = "PortfolioRepo.Save" /\ loc[g].err = Nil
    /\ loc["g1"].ref # loc["g2"].ref
    /\ heap[loc["g1"].ref].ID = heap[loc["g2"].ref].ID
    /\ \E k \in DOMAIN portfolios : k # heap[loc["g1"].ref].ID

(***************************************************************************)
(* C9: the locks held during SearchBySector                                *)
(***************************************************************************)
\* g is inside a FindByTicker call made by SearchBySector
InSectorLookup(g) ==
    /\ loc[g].op = "PortfolioRepo.SearchBySector"
    /\ pc[g] \in {"CompanyRepo.FindByTicker", "CompanyRepo.FindByTicker.read",
                  "CompanyRepo.FindByTicker.runlock"}
\* o has called Save or Delete of the portfolio repository and waits in
\* r.mu.Lock() for the readers to leave
WaitsForReaders(o) ==
    pc[o] \in {"PortfolioRepo.Save.wait", "PortfolioRepo.Delete.wait"}

\* C9 as claimed: while SearchBySector is inside a FindByTicker call it does
\* not hold the portfolio repository's lock, and no portfolio Save/Delete
\* waits for it.
C9_NoLockAcrossLookup ==
    \A g \in Threads : InSectorLookup(g) =>
        /\ g \notin pMu.readers
        /\ \A o \in Threads \ {g} : ~(WaitsForReaders(o) /\ pMu.readers = {g})

\* C9 as the code has it: SearchBySector holds the portfolio repository's
\* read lock from its first statement to its return, FindByTicker calls
\* included, so no portfolio Save/Delete is inside its critical section
\* meanwhile; the company repository's lock is held only inside FindByTicker.
C9_LockHeldAcrossLookup ==
    \A g \in Threads :
        /\ InSearch(g) =>
            /\ g \in pMu.readers
            /\ \A o \in Threads \ {g} : ~InPortfolioWrite(o)
        /\ (InSearch(g) /\ ~InSectorLookup(g)) => g \notin cMu.readers

\* a Save waits for the lock that a SearchBySector, inside FindByTicker,
\* holds
C9_Witness ==
    \E g \in Threads : \E o \in Threads \ {g} :
        /\ InSectorLookup(g)
        /\ pc[g] = "CompanyRepo.FindByTicker.read"
        /\ pc[o] = "PortfolioRepo.Save.wait"
        /\ pMu.readers = {g}
        /\ pMu.writer = o

(***************************************************************************)
(* PortfolioService.AddPosition and Portfolio.AddPosition, statement by    *)
(* statement.  The portfolio p is the object FindByID returned: no lock    *)
(* protects its fields, every read and write of them is a step of its own. *)
(***************************************************************************)
\* go portfolioService.AddPosition(portfolioID, companyTicker, shares, price):
\* the argument checks, then the call of companyRepo.FindByTicker
GoAddPosition(g, portfolioID, companyTicker, shares, purchasePrice) ==
    LET l == [Locals0 EXCEPT !.op = "PortfolioService.AddPosition",
                             !.id = portfolioID, !.ticker = companyTicker,
                             !.shares = shares, !.price = purchasePrice]
        e == IF portfolioID = "" THEN Err("portfolioID cannot be empty")
             ELSE IF companyTicker = "" THEN Err("companyTicker cannot be empty")
             ELSE IF shares <= 0 THEN Err("shares must be positive")
             ELSE Nil
    IN  IF e # Nil
        THEN Go(g, "done", [l EXCEPT !.err = e])
        ELSE Go(g, "CompanyRepo.FindByTicker", [l EXCEPT !.after = "AddPosition.company"])

\* AddPosition that goes on to load the portfolio whatever FindByTicker
\* returned (mutant)
AddPosition_Company_Unchecked(g) ==
    /\ At(g, "AddPosition.company")
    /\ Goto(g, "PortfolioRepo.FindByID")
    /\ loc' = [loc EXCEPT ![g].after = "AddPosition.portfolio"]
    /\ UNCHANGED <<heap, repoVars, now, ret, pMu, cMu, fault>>

\* FindByTicker has returned: the err and nil checks, then
\* GetPortfolioDetails calls portfolioRepo.FindByID
AddPosition_Company(g) ==
    /\ At(g, "AddPosition.company")
    /\ IF loc[g].err # Nil
       THEN Finish(g, Errorf("failed to verify company ticker", loc[g].err))
       ELSE IF loc[g].cref = Null
       THEN Finish(g, Err("company with ticker not found"))
       ELSE /\ Goto(g, "PortfolioRepo.FindByID")
            /\ loc' = [loc EXCEPT ![g].after = "AddPosition.portfolio"]
    /\ UNCHANGED <<heap, repoVars, now, ret, pMu, cMu, fault>>

\* GetPortfolioDetails has returned: NewPosition, the cost, then the call of
\* p.AddPosition
AddPosition_Portfolio(g) ==
    /\ At(g, "AddPosition.portfolio")
    /\ LET np == NewPosition(loc[g].ticker, loc[g].shares, loc[g].price) IN
       IF loc[g].err # Nil
       THEN Finish(g, Errorf("failed to find portfolio", loc[g].err))
       ELSE IF loc[g].ref = Null
       THEN Finish(g, Err("portfolio not found"))
       ELSE IF np.err # Nil
       THEN Finish(g, Errorf("failed to create new position", np.err))
       ELSE /\ Goto(g, "Portfolio.AddPosition")
            /\ loc' = [loc EXCEPT
                        ![g].pos = np.pos,
                        ![g].cost = Money(Mul64(loc[g].price.Amount, loc[g].shares),
                                          loc[g].price.Currency),
                        ![g].after = "done"]
    /\ UNCHANGED <<heap, repoVars, now, ret, pMu, cMu, fault>>

InsufficientCash ==
    Errorf("domain error adding position to portfolio",
           Err("insufficient cash balance to add position"))

\* p.AddPosition: !p.ValidateCashBalance()
Portfolio_AddPosition_Validate(g) ==
    /\ At(g, "Portfolio.AddPosition")
    /\ IF ~ValidateCashBalance(heap[loc[g].ref])
       THEN Finish(g, InsufficientCash)
       ELSE Goto(g, "Portfolio.AddPosition.check") /\ UNCHANGED loc
    /\ UNCHANGED <<heap, repoVars, now, ret, pMu, cMu, fault>>

\* p.AddPosition: p.CashBalance.Amount < cost.Amount
Portfolio_AddPosition_Check(g) ==
    /\ At(g, "Portfolio.AddPosition.check")
    /\ IF heap[loc[g].ref].CashBalance.Amount < loc[g].cost.Amount
       THEN Finish(g, InsufficientCash)
       ELSE Goto(g, "Portfolio.AddPosition.load") /\ UNCHANGED loc
    /\ UNCHANGED <<heap, repoVars, now, ret, pMu, cMu, fault>>

\* p.CashBalance.Amount -= cost.Amount: the read
Portfolio_AddPosition_Load(g) ==
    /\ At(g, "Portfolio.AddPosition.load")
    /\ loc' = [loc EXCEPT ![g].tmp = heap[loc[g].ref].CashBalance.Amount]
    /\ Goto(g, "Portfolio.AddPosition.store")
    /\ UNCHANGED <<heap, repoVars, now, ret, pMu, cMu, fault>>

\* p.CashBalance.Amount -= cost.Amount: the write
Portfolio_AddPosition_Store(g) ==
    /\ At(g, "Portfolio.AddPosition.store")
    /\ heap' = [heap EXCEPT ![loc[g].ref].CashBalance.Amount =
                                Sub64(loc[g].tmp, loc[g].cost.Amount)]
    /\ Goto(g, "Portfolio.AddPosition.holdings")
    /\ UNCHANGED <<repoVars, now, ret, loc, pMu, cMu, fault>>

\* p.Holdings[position.CompanyTicker] = position begins.  Two writes of one
\* Go map that overlap are a data race: the runtime may stop the process
\* ("fatal error: concurrent map writes")
Portfolio_AddPosition_MapWrite(g) ==
    /\ At(g, "Portfolio.AddPosition.holdings")
    /\ \/ /\ loc' = [loc EXCEPT ![g].snap = heap[loc[g].ref].Holdings]
          /\ Goto(g, "Portfolio.AddPosition.holdings.write")
          /\ UNCHANGED fault
       \/ /\ \E o \in Threads \ {g} :
                /\ pc[o] = "Portfolio.AddPosition.holdings.write"
                /\ loc[o].ref = loc[g].ref
          /\ fault' = "concurrent map writes"
          /\ UNCHANGED <<pc, loc>>
    /\ UNCHANGED <<heap, repoVars, now, ret, pMu, cMu>>

\* p.Holdings[position.CompanyTicker] = position ends: the entry is in the
\* map; a write that overlapped this one may or may not have survived
Portfolio_AddPosition_MapWritten(g) ==
    /\ At(g, "Portfolio.AddPosition.holdings.write")
    /\ \E base \in {heap[loc[g].ref].Holdings, loc[g].snap} :
        heap' = [heap EXCEPT ![loc[g].ref].Holdings =
                                Put(base, loc[g].pos.CompanyTicker, loc[g].pos)]
    /\ Goto(g, "Portfolio.AddPosition.updatedAt")
    /\ UNCHANGED <<repoVars, now, ret, loc, pMu, cMu, fault>>

\* p.UpdatedAt = time.Now(); p.AddPosition returns nil and the service calls
\* portfolioRepo.Save(p)
Portfolio_AddPosition_UpdatedAt(g) ==
    /\ At(g, "Portfolio.AddPosition.updatedAt")
    /\ heap' = [heap EXCEPT ![loc[g].ref].UpdatedAt = now]
    /\ loc' = [loc EXCEPT ![g].after = "AddPosition.saved"]
    /\ Goto(g, "PortfolioRepo.Save")
    /\ UNCHANGED <<repoVars, now, ret, pMu, cMu, fault>>

\* Save has returned: the service returns
AddPosition_Saved(g) ==
    /\ At(g, "AddPosition.saved")
    /\ IF loc[g].err # Nil
       THEN Finish(g, Errorf("failed to save updated portfolio", loc[g].err))
       ELSE Finish(g, Nil)
    /\ UNCHANGED <<heap, repoVars, now, ret, pMu, cMu, fault>>

(***************************************************************************)
(* Concurrent calls of PortfolioService.AddPosition (SpecConc)             *)
(***************************************************************************)
ConcCash == {2}
ConcPrices == {1, 2}
\* calls with an argument the service rejects: id, ticker, shares
ConcBadCalls == {<<"", "AAPL", 1>>, <<"u1", "", 1>>, <<"u1", "AAPL", 0>>,
                 <<"", "", 0>>}

AddPositionSteps(g) ==
    \/ AddPosition_Company(g)
    \/ AddPosition_Portfolio(g)
    \/ Portfolio_AddPosition_Validate(g)
    \/ Portfolio_AddPosition_Check(g)
    \/ Portfolio_AddPosition_Load(g)
    \/ Portfolio_AddPosition_Store(g)
    \/ Portfolio_AddPosition_MapWrite(g)
    \/ Portfolio_AddPosition_MapWritten(g)
    \/ Portfolio_AddPosition_UpdatedAt(g)
    \/ AddPosition_Saved(g)

ConcNext ==
    \/ \E tk \in Tickers : CallCreateCompany(SvcCompanyRefs, tk, Technology)
    \/ \E a \in ConcCash : CallCreatePortfolio(SvcRefs, Money(a, "USD"), Moderate)
    \/ \E g \in Threads, tk \in Tickers, a \in ConcPrices :
            GoAddPosition(g, "u1", tk, 1, Money(a, "USD"))
    \/ \E g \in Threads, c \in ConcBadCalls :
            GoAddPosition(g, c[1], c[2], c[3], Money(1, "USD"))
    \/ \E g \in Threads : CompanyFindSteps(g)
    \/ \E g \in Threads : PortfolioRepoSteps(g)
    \/ \E g \in Threads : AddPositionSteps(g)

SpecConc == Init /\ [][ConcNext]_vars

(***************************************************************************)
(* C3, C5: two concurrent PortfolioService.AddPosition calls               *)
(***************************************************************************)
IsAdd(g) == loc[g].op = "PortfolioService.AddPosition"

\* the call of goroutine g, run alone on the stored state (h, pm, cm)
Alone(g, h, pm, cm) ==
    PortfolioService_AddPosition(h, pm, cm, loc[g].id, loc[g].ticker,
                                 loc[g].shares, loc[g].price, now)

\* the two calls one after the other, a first: the stored state they leave
\* and what each returns
Serial(a, b) ==
    LET pre == loc[a].pre
        r1 == Alone(a, pre.h, pre.pm, pre.cm)
        r2 == Alone(b, r1.h, r1.pm, pre.cm)
    IN  [h |-> r2.h, pm |-> r2.pm, first |-> r1.err, second |-> r2.err]

\* C3: two concurrent PortfolioService.AddPosition calls on one portfolio
\* leave the stored portfolio, and return, what one of the two serial orders
\* does; the process does not crash and no stored cash balance is negative.
C3_Serializable ==
    /\ fault = "none"
    /\ \A id \in DOMAIN portfolios : ValidateCashBalance(heap[portfolios[id]])
    /\ (AllDone /\ \A g \in Threads : IsAdd(g)) =>
        \E a \in Threads : \E b \in Threads \ {a} :
            /\ heap = Serial(a, b).h
            /\ portfolios = Serial(a, b).pm
            /\ loc[a].err = Serial(a, b).first
            /\ loc[b].err = Serial(a, b).second

\* the stored portfolio (h, pm) lacks a debit or a holding of the two calls
\* of g and o, which both add to the portfolio that had cash `cash`
UpdateLost(h, pm, g, o, cash) ==
    LET q == h[pm[loc[g].id]] IN
    \/ q.CashBalance.Amount # cash - loc[g].cost.Amount - loc[o].cost.Amount
    \/ ~({loc[g].ticker, loc[o].ticker} \subseteq DOMAIN q.Holdings)

\* g and o add different tickers to the same stored portfolio, each
\* affordable, and o has returned success
SecondWriter(g, o) ==
    /\ IsAdd(g) /\ IsAdd(o)
    /\ loc[g].id = loc[o].id
    /\ loc[g].ticker # loc[o].ticker
    /\ pc[o] = "done" /\ loc[o].err = Nil
    /\ loc[g].id \in DOMAIN loc[g].pre.pm
    /\ LET cash == loc[g].pre.h[loc[g].pre.pm[loc[g].id]].CashBalance.Amount IN
        loc[g].cost.Amount <= cash /\ loc[o].cost.Amount <= cash

ValidArguments(g) ==
    loc[g].id # "" /\ loc[g].ticker # "" /\ loc[g].shares > 0

\* g is in companyRepo.FindByTicker or at the checks of what it returned
InCompanyLookup(g) ==
    pc[g] \in {"CompanyRepo.FindByTicker", "CompanyRepo.FindByTicker.read",
               "CompanyRepo.FindByTicker.runlock", "AddPosition.company"}

\* g is loading the portfolio, in the domain AddPosition, or saving
PastCompanyLookup(g) ==
    pc[g] \in {"PortfolioRepo.FindByID", "PortfolioRepo.FindByID.read",
               "PortfolioRepo.FindByID.runlock", "AddPosition.portfolio",
               "Portfolio.AddPosition", "Portfolio.AddPosition.check",
               "Portfolio.AddPosition.load", "Portfolio.AddPosition.store",
               "Portfolio.AddPosition.holdings",
               "Portfolio.AddPosition.holdings.write",
               "Portfolio.AddPosition.updatedAt",
               "PortfolioRepo.Save", "PortfolioRepo.Save.wait",
               "PortfolioRepo.Save.store", "PortfolioRepo.Save.unlock",
               "AddPosition.saved"}

SearchRefs == {1, 2}             \* portfolio and company pointers
SearchSectors == {Technology, Healthcare}
\* tickers held; no company is ever created for TSLA
SearchTickers == Tickers \cup {"TSLA"}

SearchBySectorSteps(g) ==
    \/ SearchBySector_RLock(g)
    \/ SearchBySector_NextPortfolio(g)
    \/ SearchBySector_NextHolding(g)
    \/ SearchBySector_Found(g)
    \/ SearchBySector_RUnlock(g)

SearchNext ==
    \/ \E id \in ConcIDs : CallNewPortfolio(SearchRefs, id, Moderate, Money(1, "USD"))
    \/ \E r \in SearchRefs, tk \in SearchTickers :
            CallAddPosition(r, [CompanyTicker |-> tk, Shares |-> 1,
                                PurchasePrice |-> Money(0, "USD")],
                            Money(0, "USD"))
    \/ \E r \in SearchRefs : CallPortfolioSave(r)
    \/ \E tk \in Tickers, sector \in SearchSectors :
            CallCreateCompany(SearchRefs, tk, sector)
    \/ \E sector \in SearchSectors : GoSearchBySector("g1", sector)
    \/ \E g \in Threads : SearchBySectorSteps(g)
    \/ \E g \in Threads : CompanyFindSteps(g)

SpecSearch == Init /\ [][SearchNext]_vars

\* the elements of a slice
Elements(sq) == {sq[i] : i \in 1..Len(sq)}

\* portfolio p holds a ticker the company repository resolves to a company
\* of the sector
HoldsSector(p, sector) ==
    \E k \in DOMAIN p.Holdings :
        LET tk == p.Holdings[k].CompanyTicker IN
        /\ tk \in DOMAIN companies
        /\ cheap[companies[tk]].Sector = sector

\* C18: SearchBySector(sector) returns no error and each stored portfolio
\* exactly once iff at least one of its holdings' tickers resolves in the
\* company repository to a company whose Sector equals sector; a holding
\* whose company lookup fails is skipped, and no portfolio appears more than
\* once however many of its holdings match.
C18_SearchBySector ==
    \A g \in Threads :
        (loc[g].op = "PortfolioRepo.SearchBySector" /\ pc[g] = "done") =>
            /\ loc[g].err = Nil
            /\ Elements(loc[g].results) =
                    {portfolios[id] : id \in
                        {i \in DOMAIN portfolios :
                            HoldsSector(heap[portfolios[i]], loc[g].sector)}}
            /\ \A i \in 1..Len(loc[g].results) : \A j \in 1..Len(loc[g].results) :
                    loc[g].results[i] = loc[g].results[j] => i = j

\* a search for Technology has returned, once, the stored portfolio that
\* holds two Technology companies and a ticker without a company, and not
\* the stored portfolio whose only holding has no company
C18_Witness ==
    \E g \in Threads :
        /\ loc[g].op = "PortfolioRepo.SearchBySector" /\ pc[g] = "done"
        /\ loc[g].sector = Technology
        /\ Len(loc[g].results) = 1
        /\ DOMAIN portfolios = {"p1", "p2"}
        /\ \E p \in Elements(loc[g].results) :
            /\ DOMAIN heap[p].Holdings = {"AAPL", "MSFT", "TSLA"}
            /\ \A tk \in {"AAPL", "MSFT"} :
                    tk \in DOMAIN companies /\ cheap[companies[tk]].Sector = Technology
        /\ \E id \in DOMAIN portfolios :
            /\ portfolios[id] \notin Elements(loc[g].results)
            /\ DOMAIN heap[portfolios[id]].Holdings = {"TSLA"}

(***************************************************************************)
(* Company: age of the metrics, refresh and update (SpecMetrics)           *)
(* The ratios are float64 values the code only copies: small integers      *)
(* stand for them.                                                         *)
(***************************************************************************)
MetricsFreshDays == 7   \* 7 * 24 * time.Hour, in days
MaxMetricsNow == 9      \* last day of the clock in SpecMetrics

\* CheckMetricsAge that still counts metrics of exactly 7 days as fresh (mutant)
CheckMetricsAge_Inclusive(c, t) ==
    IF c.FinancialMetrics.MetricsUpdatedAt = ZeroTime THEN FALSE
    ELSE t - c.FinancialMetrics.MetricsUpdatedAt <= MetricsFreshDays

\* c.CheckMetricsAge() at time t
CheckMetricsAge(c, t) ==
    IF c.FinancialMetrics.MetricsUpdatedAt = ZeroTime THEN FALSE
    ELSE t - c.FinancialMetrics.MetricsUpdatedAt < MetricsFreshDays

\* RefreshStaleMetrics that re-stamps whatever the age of the metrics (mutant)
RefreshStaleMetrics_Always(c, t) ==
    [c |-> [c EXCEPT !.FinancialMetrics.MetricsUpdatedAt = t, !.UpdatedAt = t],
     err |-> Nil]

\* c.RefreshStaleMetrics() at time t: [c, err]
RefreshStaleMetrics(c, t) ==
    IF ~CheckMetricsAge(c, t)
    THEN [c |-> [c EXCEPT !.FinancialMetrics.MetricsUpdatedAt = t, !.UpdatedAt = t],
          err |-> Nil]
    ELSE [c |-> c, err |-> Nil]

\* c.ValidateScore()
ValidateScore(c) == c.CurrentScore >= 0 /\ c.CurrentScore <= 100

\* RecalculateScoreOnMetricUpdate that computes a score from the metrics
\* without clamping it (mutant)
RecalculateScoreOnMetricUpdate_Unclamped(c, t) ==
    [c |-> [c EXCEPT !.CurrentScore = c.FinancialMetrics.PERatio * 10,
                     !.UpdatedAt = t],
     err |-> Nil]

\* c.RecalculateScoreOnMetricUpdate() at time t: [c, err]
RecalculateScoreOnMetricUpdate(c, t) ==
    [c |-> [c EXCEPT !.UpdatedAt = t], err |-> Nil]

\* UpdateFinancialMetrics that keeps the timestamp of newMetrics (mutant)
UpdateFinancialMetrics_KeepStamp(c, newMetrics, t) ==
    RecalculateScoreOnMetricUpdate(
        [c EXCEPT !.FinancialMetrics = newMetrics, !.UpdatedAt = t], t)

\* c.UpdateFinancialMetrics(newMetrics) at time t: [c, err]
UpdateFinancialMetrics(c, newMetrics, t) ==
    LET c1 == [c EXCEPT !.FinancialMetrics = newMetrics]
        c2 == [c1 EXCEPT !.FinancialMetrics.MetricsUpdatedAt = t]
        c3 == [c2 EXCEPT !.UpdatedAt = t]
    IN  RecalculateScoreOnMetricUpdate(c3, t)

\* CompanyService.RefreshCompany: [ch, cm, err, saved]; saved is the pointer
\* handed to companyRepo.Save, Null when Save was not called
RefreshCompany(ch, cm, ticker, t) ==
    IF ticker = ""
    THEN [ch |-> ch, cm |-> cm, err |-> Err("ticker cannot be empty"), saved |-> Null]
    ELSE LET f == CompanyRepo_FindByTicker(cm, ticker) IN
         IF f.err # Nil THEN [ch |-> ch, cm |-> cm, err |-> f.err, saved |-> Null]
         ELSE IF f.ref = Null
         THEN [ch |-> ch, cm |-> cm, err |-> Err("company not found"), saved |-> Null]
         ELSE LET r == RefreshStaleMetrics(ch[f.ref], t)
                  ch2 == Put(ch, f.ref, r.c)
              IN  IF r.err # Nil
                  THEN [ch |-> ch2, cm |-> cm, err |-> r.err, saved |-> Null]
                  ELSE LET sv == CompanyRepo_Save(cm, ch2, f.ref) IN
                       [ch |-> ch2, cm |-> sv.m, err |-> sv.err, saved |-> f.ref]

\* CompanyService.UpdateCompanyMetrics: [ch, cm, err]
UpdateCompanyMetrics(ch, cm, ticker, newMetrics, t) ==
    IF ticker = ""
    THEN [ch |-> ch, cm |-> cm, err |-> Err("ticker cannot be empty")]
    ELSE LET f == CompanyRepo_FindByTicker(cm, ticker) IN
         IF f.err # Nil THEN [ch |-> ch, cm |-> cm, err |-> f.err]
         ELSE IF f.ref = Null
         THEN [ch |-> ch, cm |-> cm, err |-> Err("company not found")]
         ELSE LET r == UpdateFinancialMetrics(ch[f.ref], newMetrics, t)
                  ch2 == Put(ch, f.ref, r.c)
              IN  IF r.err # Nil
                  THEN [ch |-> ch2, cm |-> cm, err |-> r.err]
                  ELSE LET sv == CompanyRepo_Save(cm, ch2, f.ref) IN
                       [ch |-> ch2, cm |-> sv.m, err |-> sv.err]

\* InMemoryCompanyRepository.SearchByScoreRange: [found, err]; found is the
\* set of the pointers in the returned slice, whose order is the map's
CompanyRepo_SearchByScoreRange(m, h, minScore, maxScore) ==
    IF minScore > maxScore
    THEN [found |-> {}, err |-> Err("minScore cannot be greater than maxScore")]
    ELSE [found |-> {m[k] : k \in {x \in DOMAIN m :
                                     /\ h[m[x]].CurrentScore >= minScore
                                     /\ h[m[x]].CurrentScore <= maxScore}},
          err |-> Nil]

\* CompanyService.SearchCompaniesByScore: [found, err]
SearchCompaniesByScore(m, h, minScore, maxScore) ==
    IF minScore > maxScore
    THEN [found |-> {}, err |-> Err("minScore cannot be greater than maxScore")]
    ELSE CompanyRepo_SearchByScoreRange(m, h, minScore, maxScore)

MetricsRefs == {1}                    \* company pointers of SpecMetrics
MetricsTickers == {"", "AAPL"}
MetricsSteps == {1, 6}                \* days that pass between two calls
MetricRatios == {<<10, 1, 1>>, <<15, 2, 0>>}   \* PERatio, PBRatio, DebtToEquity
MetricStamps == {ZeroTime, 1, 2, MaxMetricsNow}
MetricsInputs ==
    {FinancialMetrics(r[1], r[2], r[3], t) : r \in MetricRatios, t \in MetricStamps}

\* days pass between two calls
MetricsTick(d) ==
    /\ AllIdle
    /\ now + d <= MaxMetricsNow
    /\ now' = now + d
    /\ UNCHANGED <<heap, repoVars, ret, concVars>>

\* c, err := company.NewCompany(ticker, metrics, sector), the metrics carrying
\* any timestamp; the object written over is garbage
CallNewCompanyMetrics(ref, ticker, metrics, sector) ==
    /\ AllIdle
    /\ ref \notin Range(companies)
    /\ LET r == NewCompany(ticker, metrics, sector, now) IN
        /\ cheap' = IF r.err = Nil THEN Put(cheap, ref, r.c) ELSE cheap
        /\ ret' = [op |-> "NewCompany", err |-> r.err,
                   ref |-> IF r.err = Nil THEN ref ELSE Null,
                   amt |-> 0, key |-> ticker, prev |-> Null]
    /\ UNCHANGED <<heap, portfolios, companies, now, concVars>>

\* ok := cheap[ref].CheckMetricsAge()
CallCheckMetricsAge(ref) ==
    /\ AllIdle
    /\ ref \in DOMAIN cheap
    /\ ret' = [op |-> "CheckMetricsAge", err |-> Nil, ref |-> ref, amt |-> 0,
               key |-> cheap[ref].Ticker, prev |-> Null,
               ok |-> CheckMetricsAge(cheap[ref], now)]
    /\ UNCHANGED <<heap, repoVars, now, concVars>>

\* err := cheap[ref].RefreshStaleMetrics(); was is the timestamp the metrics
\* had before the call
CallRefreshStaleMetrics(ref) ==
    /\ AllIdle
    /\ ref \in DOMAIN cheap
    /\ LET r == RefreshStaleMetrics(cheap[ref], now) IN
        /\ cheap' = Put(cheap, ref, r.c)
        /\ ret' = [op |-> "RefreshStaleMetrics", err |-> r.err, ref |-> ref,
                   amt |-> 0, key |-> cheap[ref].Ticker, prev |-> Null,
                   was |-> cheap[ref].FinancialMetrics.MetricsUpdatedAt]
    /\ UNCHANGED <<heap, portfolios, companies, now, concVars>>

\* err := cheap[ref].UpdateFinancialMetrics(newMetrics)
CallUpdateFinancialMetrics(ref, newMetrics) ==
    /\ AllIdle
    /\ ref \in DOMAIN cheap
    /\ LET r == UpdateFinancialMetrics(cheap[ref], newMetrics, now) IN
        /\ cheap' = Put(cheap, ref, r.c)
        /\ ret' = [op |-> "UpdateFinancialMetrics", err |-> r.err, ref |-> ref,
                   amt |-> 0, key |-> cheap[ref].Ticker, prev |-> Null,
                   metrics |-> newMetrics]
    /\ UNCHANGED <<heap, portfolios, companies, now, concVars>>

\* err := companyService.RefreshCompany(ticker); was is the timestamp the
\* stored metrics had before the call
CallRefreshCompany(ticker) ==
    /\ AllIdle
    /\ LET r == RefreshCompany(cheap, companies, ticker, now) IN
        /\ cheap' = r.ch
        /\ companies' = r.cm
        /\ ret' = [op |-> "RefreshCompany", err |-> r.err, ref |-> Null,
                   amt |-> 0, key |-> ticker, prev |-> Null, saved |-> r.saved,
                   was |-> IF ticker \in DOMAIN companies
                           THEN cheap[companies[ticker]].FinancialMetrics.MetricsUpdatedAt
                           ELSE ZeroTime]
    /\ UNCHANGED <<heap, portfolios, now, concVars>>

\* err := cheap[ref].RecalculateScoreOnMetricUpdate()
CallRecalculateScoreOnMetricUpdate(ref) ==
    /\ AllIdle
    /\ ref \in DOMAIN cheap
    /\ LET r == RecalculateScoreOnMetricUpdate(cheap[ref], now) IN
        /\ cheap' = Put(cheap, ref, r.c)
        /\ ret' = [op |-> "RecalculateScoreOnMetricUpdate", err |-> r.err,
                   ref |-> ref, amt |-> 0, key |-> cheap[ref].Ticker,
                   prev |-> Null]
    /\ UNCHANGED <<heap, portfolios, companies, now, concVars>>

\* err := companyService.UpdateCompanyMetrics(ticker, newMetrics)
CallUpdateCompanyMetrics(ticker, newMetrics) ==
    /\ AllIdle
    /\ LET r == UpdateCompanyMetrics(cheap, companies, ticker, newMetrics, now) IN
        /\ cheap' = r.ch
        /\ companies' = r.cm
        /\ ret' = [op |-> "UpdateCompanyMetrics", err |-> r.err, ref |-> Null,
                   amt |-> 0, key |-> ticker, prev |-> Null,
                   metrics |-> newMetrics]
    /\ UNCHANGED <<heap, portfolios, now, concVars>>

\* cs, err := companyService.SearchCompaniesByScore(minScore, maxScore)
CallSearchCompaniesByScore(minScore, maxScore) ==
    /\ AllIdle
    /\ LET r == SearchCompaniesByScore(companies, cheap, minScore, maxScore) IN
        ret' = [op |-> "SearchCompaniesByScore", err |-> r.err, ref |-> Null,
                amt |-> minScore, key |-> "", prev |-> Null,
                max |-> maxScore, found |-> r.found]
    /\ UNCHANGED <<heap, repoVars, now, concVars>>

MetricScores == {0, 100}              \* minScore, maxScore arguments

MetricsNext ==
    \/ \E d \in MetricsSteps : MetricsTick(d)
    \/ \E ref \in MetricsRefs, tk \in MetricsTickers, m \in MetricsInputs :
            CallNewCompanyMetrics(ref, tk, m, Technology)
    \/ \E ref \in MetricsRefs : CallCompanySave(ref)
    \/ \E ref \in MetricsRefs : CallCheckMetricsAge(ref)
    \/ \E ref \in MetricsRefs : CallRefreshStaleMetrics(ref)
    \/ \E ref \in MetricsRefs, m \in MetricsInputs : CallUpdateFinancialMetrics(ref, m)
    \/ \E tk \in MetricsTickers : CallRefreshCompany(tk)
    \/ \E ref \in MetricsRefs : CallRecalculateScoreOnMetricUpdate(ref)
    \/ \E tk \in MetricsTickers : CallCreateCompany(MetricsRefs, tk, Technology)
    \/ \E tk \in MetricsTickers, m \in MetricsInputs : CallUpdateCompanyMetrics(tk, m)
    \/ \E lo \in MetricScores, hi \in MetricScores : CallSearchCompaniesByScore(lo, hi)

SpecMetrics == Init /\ [][MetricsNext]_vars

\* the metrics stamped at time s are fresh at time t: stamped, and less than
\* 7 days old
FreshAt(s, t) == s # ZeroTime /\ t - s < MetricsFreshDays

\* what RefreshStaleMetrics may do to company c, giving c2, at time t
RefreshEffect(c, c2, t) ==
    /\ FreshAt(c.FinancialMetrics.MetricsUpdatedAt, t) => c2 = c
    /\ ~FreshAt(c.FinancialMetrics.MetricsUpdatedAt, t) =>
        /\ c2.FinancialMetrics.MetricsUpdatedAt = t
        /\ c2.UpdatedAt = t
    /\ c2.FinancialMetrics.PERatio = c.FinancialMetrics.PERatio
    /\ c2.FinancialMetrics.PBRatio = c.FinancialMetrics.PBRatio
    /\ c2.FinancialMetrics.DebtToEquity = c.FinancialMetrics.DebtToEquity
    /\ c2.Ticker = c.Ticker
    /\ c2.Sector = c.Sector
    /\ c2.CurrentScore = c.CurrentScore
    /\ CheckMetricsAge(c2, t)

\* C19: RefreshStaleMetrics returns nil; on fresh metrics (stamped and less
\* than 7 days old) it leaves the company as it is, MetricsUpdatedAt and
\* UpdatedAt included; on stale metrics it sets MetricsUpdatedAt and UpdatedAt
\* to now and leaves the three ratios, Ticker, Sector and CurrentScore as they
\* were; CheckMetricsAge is true right after it in both cases.
\* RefreshCompany of a stored ticker returns nil, does the same to the stored
\* company and hands it to Save in both cases: it stays stored under its
\* ticker at the same pointer.
C19_RefreshStaleMetrics ==
    [][ /\ \A ref \in MetricsRefs :
            (/\ ret'.op = "RefreshStaleMetrics"
             /\ ret'.ref = ref
             /\ CallRefreshStaleMetrics(ref))
            => /\ ret'.err = Nil
               /\ RefreshEffect(cheap[ref], cheap'[ref], now)
               /\ now' = now
               /\ companies' = companies
        /\ \A tk \in DOMAIN companies :
            (/\ ret'.op = "RefreshCompany"
             /\ ret'.key = tk
             /\ CallRefreshCompany(tk))
            => /\ ret'.err = Nil
               /\ RefreshEffect(cheap[companies[tk]], cheap'[companies[tk]], now)
               /\ ret'.saved = companies[tk]
               /\ companies' = companies
               /\ now' = now
      ]_vars

\* RefreshCompany returned nil for a stored company whose metrics were fresh:
\* the timestamps are the old ones and the company was saved
C19_Witness ==
    /\ ret.op = "RefreshCompany"
    /\ ret.err = Nil
    /\ ret.key \in DOMAIN companies
    /\ ret.saved = companies[ret.key]
    /\ FreshAt(ret.was, now)
    /\ ret.was < now
    /\ cheap[ret.saved].FinancialMetrics.MetricsUpdatedAt = ret.was
    /\ cheap[ret.saved].UpdatedAt < now

\* RefreshCompany returned nil for a stored company whose metrics were exactly
\* 7 days old: both timestamps are now and the company was saved
C19_WitnessStale ==
    /\ ret.op = "RefreshCompany"
    /\ ret.err = Nil
    /\ ret.key \in DOMAIN companies
    /\ ret.saved = companies[ret.key]
    /\ ret.was # ZeroTime
    /\ now - ret.was = MetricsFreshDays
    /\ cheap[ret.saved].FinancialMetrics.MetricsUpdatedAt = now
    /\ cheap[ret.saved].UpdatedAt = now

\* RefreshStaleMetrics called on a company whose metrics were never stamped
C19_WitnessZero ==
    /\ ret.op = "RefreshStaleMetrics"
    /\ ret.was = ZeroTime
    /\ cheap[ret.ref].FinancialMetrics.MetricsUpdatedAt = now

\* C20: UpdateFinancialMetrics(newMetrics) returns nil, sets the three ratios
\* to those of newMetrics, sets MetricsUpdatedAt to now whatever timestamp
\* newMetrics carries (zero, stale, fresh or in the future), sets UpdatedAt to
\* now and leaves Ticker, Sector and CurrentScore as they were;
\* CheckMetricsAge is true right after it.
C20_UpdateFinancialMetrics ==
    [][ \A ref \in MetricsRefs :
            (/\ ret'.op = "UpdateFinancialMetrics"
             /\ ret'.ref = ref
             /\ CallUpdateFinancialMetrics(ref, ret'.metrics))
            => LET c == cheap[ref]
                   c2 == cheap'[ref]
                   m == ret'.metrics
               IN  /\ ret'.err = Nil
                   /\ c2.FinancialMetrics.PERatio = m.PERatio
                   /\ c2.FinancialMetrics.PBRatio = m.PBRatio
                   /\ c2.FinancialMetrics.DebtToEquity = m.DebtToEquity
                   /\ c2.FinancialMetrics.MetricsUpdatedAt = now
                   /\ c2.UpdatedAt = now
                   /\ c2.Ticker = c.Ticker
                   /\ c2.Sector = c.Sector
                   /\ c2.CurrentScore = c.CurrentScore
                   /\ CheckMetricsAge(c2, now)
                   /\ now' = now
                   /\ companies' = companies
      ]_vars

\* UpdateFinancialMetrics was called with metrics carrying a stale timestamp,
\* on a company created earlier: the metrics are stamped now
C20_Witness ==
    /\ ret.op = "UpdateFinancialMetrics"
    /\ ret.err = Nil
    /\ ret.metrics.MetricsUpdatedAt # ZeroTime
    /\ now - ret.metrics.MetricsUpdatedAt >= MetricsFreshDays
    /\ cheap[ret.ref].FinancialMetrics.MetricsUpdatedAt = now
    /\ cheap[ret.ref].FinancialMetrics.PERatio = ret.metrics.PERatio
    /\ cheap[ret.ref].UpdatedAt = now

\* UpdateFinancialMetrics was called with metrics carrying the zero timestamp
C20_WitnessZero ==
    /\ ret.op = "UpdateFinancialMetrics"
    /\ ret.metrics.MetricsUpdatedAt = ZeroTime
    /\ cheap[ret.ref].FinancialMetrics.MetricsUpdatedAt = now

\* C21: CheckMetricsAge returns false when MetricsUpdatedAt is the zero
\* timestamp or the metrics are 7 days old or older (exactly 7 days included),
\* true otherwise; it writes nothing.
C21_CheckMetricsAge ==
    [][ \A ref \in MetricsRefs :
            (/\ ret'.op = "CheckMetricsAge"
             /\ ret'.ref = ref
             /\ CallCheckMetricsAge(ref))
            => LET s == cheap[ref].FinancialMetrics.MetricsUpdatedAt IN
               /\ (s = ZeroTime \/ now - s >= 7) => ret'.ok = FALSE
               /\ (s # ZeroTime /\ now - s < 7) => ret'.ok = TRUE
               /\ cheap' = cheap
               /\ companies' = companies
      ]_vars

\* CheckMetricsAge returned false for metrics stamped exactly 7 days ago
C21_Witness ==
    /\ ret.op = "CheckMetricsAge"
    /\ ret.ok = FALSE
    /\ cheap[ret.ref].FinancialMetrics.MetricsUpdatedAt # ZeroTime
    /\ now - cheap[ret.ref].FinancialMetrics.MetricsUpdatedAt = 7

\* CheckMetricsAge returned true for metrics stamped 6 days ago
C21_WitnessSixDays ==
    /\ ret.op = "CheckMetricsAge"
    /\ ret.ok = TRUE
    /\ now - cheap[ret.ref].FinancialMetrics.MetricsUpdatedAt = 6

\* CheckMetricsAge returned false for the zero timestamp
C21_WitnessZero ==
    /\ ret.op = "CheckMetricsAge"
    /\ ret.ok = FALSE
    /\ cheap[ret.ref].FinancialMetrics.MetricsUpdatedAt = ZeroTime

\* C22: metrics older than 24 hours (stamped, and 2 days old or more on the
\* clock in days) are stale: CheckMetricsAge returns false for them and
\* RefreshStaleMetrics stamps them with now.
C22_StaleAfterOneDay ==
    [][ \A ref \in MetricsRefs :
            LET s == cheap[ref].FinancialMetrics.MetricsUpdatedAt IN
            /\ (/\ ret'.op = "CheckMetricsAge"
                /\ ret'.ref = ref
                /\ s # ZeroTime /\ now - s > 1
                /\ CallCheckMetricsAge(ref))
               => ret'.ok = FALSE
            /\ (/\ ret'.op = "RefreshStaleMetrics"
                /\ ret'.ref = ref
                /\ s # ZeroTime /\ now - s > 1
                /\ CallRefreshStaleMetrics(ref))
               => cheap'[ref].FinancialMetrics.MetricsUpdatedAt = now
      ]_vars

\* C23: NewCompany fails for an empty ticker and otherwise returns a company
\* with CurrentScore 0; after any sequence of UpdateFinancialMetrics,
\* RefreshStaleMetrics, RecalculateScoreOnMetricUpdate and the CompanyService
\* operations, ValidateScore is true (the score is in [0, 100]) for every
\* company the repository stores, and for every other company created.
C23_ScoreInRange ==
    /\ [](\A r \in DOMAIN cheap : ValidateScore(cheap[r]))
    /\ [](\A tk \in DOMAIN companies :
            /\ companies[tk] \in DOMAIN cheap
            /\ cheap[companies[tk]].CurrentScore >= 0
            /\ cheap[companies[tk]].CurrentScore <= 100)
    /\ [][ret'.op \in {"NewCompany", "CreateCompany"} /\ ret' # ret
            => /\ ret'.key = "" <=> ret'.err # Nil
               /\ ret'.err = Nil => cheap'[ret'.ref].CurrentScore = 0
               /\ ret'.err # Nil => cheap' = cheap /\ companies' = companies
         ]_vars

\* the stored company went through UpdateCompanyMetrics with a P/E of 15 and
\* through RecalculateScoreOnMetricUpdate on a later day, and its score is
\* still in range
C23_Witness ==
    /\ ret.op = "RecalculateScoreOnMetricUpdate"
    /\ ret.key \in DOMAIN companies
    /\ companies[ret.key] = ret.ref
    /\ cheap[ret.ref].FinancialMetrics.PERatio = 15
    /\ cheap[ret.ref].FinancialMetrics.MetricsUpdatedAt # ZeroTime
    /\ cheap[ret.ref].FinancialMetrics.MetricsUpdatedAt < cheap[ret.ref].UpdatedAt
    /\ ValidateScore(cheap[ret.ref])

(***************************************************************************)
(* Money arithmetic (SpecMoney)                                            *)
(***************************************************************************)
ErrCurrencyMismatch == Err("currency mismatch")

\* m.Add(other): [m, err]
Money_Add(m, other) ==
    IF m.Currency # other.Currency
    THEN [m |-> Money(0, ""), err |-> ErrCurrencyMismatch]
    ELSE [m |-> Money(Add64(m.Amount, other.Amount), m.Currency), err |-> Nil]

\* m.Subtract(other): [m, err]
Money_Subtract(m, other) ==
    IF m.Currency # other.Currency
    THEN [m |-> Money(0, ""), err |-> ErrCurrencyMismatch]
    ELSE [m |-> Money(Sub64(m.Amount, other.Amount), m.Currency), err |-> Nil]

MoneyAmounts == MinInt..MaxInt
MoneyValues == {Money(a, c) : a \in MoneyAmounts, c \in Currencies}

\* sum, err := a.Add(b); a and b are passed by value
CallMoneyAdd(a, b) ==
    /\ AllIdle
    /\ LET r == Money_Add(a, b) IN
        ret' = [op |-> "Money.Add", err |-> r.err, ref |-> Null, amt |-> 0,
                key |-> "", prev |-> Null, a |-> a, b |-> b, res |-> r.m]
    /\ UNCHANGED <<heap, repoVars, now, concVars>>

\* diff, err := a.Subtract(b)
CallMoneySubtract(a, b) ==
    /\ AllIdle
    /\ LET r == Money_Subtract(a, b) IN
        ret' = [op |-> "Money.Subtract", err |-> r.err, ref |-> Null, amt |-> 0,
                key |-> "", prev |-> Null, a |-> a, b |-> b, res |-> r.m]
    /\ UNCHANGED <<heap, repoVars, now, concVars>>

MoneyNext ==
    \/ \E a \in MoneyValues, b \in MoneyValues : CallMoneyAdd(a, b)
    \/ \E a \in MoneyValues, b \in MoneyValues : CallMoneySubtract(a, b)

SpecMoney == Init /\ [][MoneyNext]_vars

\* C24: for a and b of the same currency, over the whole range of amounts,
\* a.Add(b) and a.Subtract(b) return nil and Money of that currency with the
\* amounts a.Amount + b.Amount and a.Amount - b.Amount as integers, and
\* a.Add(b).Subtract(b) = a; for different currencies both return an error.
C24_MoneyArithmetic ==
    /\ ret.op = "Money.Add" =>
        IF ret.a.Currency = ret.b.Currency
        THEN /\ ret.err = Nil
             /\ ret.res.Currency = ret.a.Currency
             /\ ret.res.Amount = ret.a.Amount + ret.b.Amount
             /\ Money_Subtract(ret.res, ret.b) = [m |-> ret.a, err |-> Nil]
        ELSE ret.err # Nil
    /\ ret.op = "Money.Subtract" =>
        IF ret.a.Currency = ret.b.Currency
        THEN /\ ret.err = Nil
             /\ ret.res.Currency = ret.a.Currency
             /\ ret.res.Amount = ret.a.Amount - ret.b.Amount
        ELSE ret.err # Nil

(***************************************************************************)
(* Creation of portfolios (SpecCreate)                                     *)
(***************************************************************************)
CreateRefs == {1, 2}
CreateIDs == {"", "p1", "p2"}
CreateProfiles == {Conservative, Moderate}
CreateCash == {Money(a, c) : a \in Amounts, c \in Currencies}

CreateNext ==
    \/ Tick
    \/ \E id \in CreateIDs, rp \in CreateProfiles, cash \in CreateCash :
            CallNewPortfolio(CreateRefs, id, rp, cash)
    \/ \E rp \in CreateProfiles, cash \in CreateCash :
            CallCreatePortfolio(CreateRefs, cash, rp)
    \/ \E ref \in CreateRefs : CallCheckRebalanceTrigger(ref)

SpecCreate == Init /\ [][CreateNext]_vars

\* C25: NewPortfolio(id, profile, cash) fails exactly when id is empty or
\* cash.Amount < 0 and then creates nothing; on success the portfolio has the
\* id, profile and cash given, no holdings and the zero LastRebalanceTime, so
\* that CheckRebalanceTrigger is true.  CreatePortfolio never fails for an
\* empty id, fails exactly when cash.Amount < 0, then leaves the portfolios
\* and the repository as they were, and otherwise stores such a portfolio
\* under its non-empty id.
C25_NewPortfolio ==
    [][ /\ \A id \in CreateIDs, rp \in CreateProfiles, cash \in CreateCash :
            (/\ ret'.op = "NewPortfolio"
             /\ ret'.key = id
             /\ ret'.amt = cash.Amount
             /\ CallNewPortfolio(CreateRefs, id, rp, cash))
            => /\ ret'.err # Nil <=> (id = "" \/ cash.Amount < 0)
               /\ ret'.err # Nil => heap' = heap
               /\ ret'.err = Nil =>
                    /\ ret'.ref \notin DOMAIN heap
                    /\ heap'[ret'.ref].ID = id
                    /\ heap'[ret'.ref].RiskProfile = rp
                    /\ heap'[ret'.ref].CashBalance = cash
                    /\ heap'[ret'.ref].Holdings = EmptyMap
                    /\ heap'[ret'.ref].LastRebalanceTime = ZeroTime
                    /\ CheckRebalanceTrigger(heap'[ret'.ref], now)
                    /\ \A r \in DOMAIN heap : heap'[r] = heap[r]
               /\ portfolios' = portfolios
        /\ \A rp \in CreateProfiles, cash \in CreateCash :
            (/\ ret'.op = "CreatePortfolio"
             /\ ret'.amt = cash.Amount
             /\ CallCreatePortfolio(CreateRefs, cash, rp))
            => /\ ret'.err # Nil <=> cash.Amount < 0
               /\ ret'.err # Nil =>
                    /\ heap' = heap
                    /\ portfolios' = portfolios
                    /\ ret'.err = Errorf("failed to create new portfolio in domain",
                                         Err("initial cash balance cannot be negative"))
               /\ ret'.err = Nil =>
                    /\ ret'.key # ""
                    /\ ret'.key \notin DOMAIN portfolios
                    /\ portfolios' = Put(portfolios, ret'.key, ret'.ref)
                    /\ heap'[ret'.ref].ID = ret'.key
                    /\ heap'[ret'.ref].RiskProfile = rp
                    /\ heap'[ret'.ref].CashBalance = cash
                    /\ heap'[ret'.ref].Holdings = EmptyMap
                    /\ heap'[ret'.ref].LastRebalanceTime = ZeroTime
      ]_vars

\* CreatePortfolio was refused for a negative cash balance after one
\* portfolio had been stored: the repository still holds that one only
C25_Witness ==
    /\ ret.op = "CreatePortfolio"
    /\ ret.err # Nil
    /\ ret.amt < 0
    /\ Cardinality(DOMAIN portfolios) = 1
    /\ Cardinality(DOMAIN heap) = 1

\* NewPortfolio succeeded with cash 0 and the trigger was then found true
C25_WitnessTrigger ==
    /\ ret.op = "CheckRebalanceTrigger"
    /\ ret.ok = TRUE
    /\ heap[ret.ref].CashBalance.Amount = 0
    /\ heap[ret.ref].ID = "p1"
    /\ heap[ret.ref].Holdings = EmptyMap

\* NewPortfolio was refused for the empty id
C25_WitnessEmptyID ==
    /\ ret.op = "NewPortfolio"
    /\ ret.key = ""
    /\ ret.amt >= 0
    /\ ret.err = Err("portfolio ID cannot be empty")

(***************************************************************************)
(* Progress of the repositories' operations (SpecRepoLive)                 *)
(* A goroutine that can take its next statement is eventually scheduled.   *)
(***************************************************************************)
RepoConcSteps(g) ==
    \/ PortfolioRepoSteps(g)
    \/ PortfolioDelete_Lock(g)
    \/ PortfolioDelete_Wait(g)
    \/ PortfolioDelete_Body(g)
    \/ PortfolioDelete_Unlock(g)
    \/ SearchBySector_RLock(g)
    \/ SearchBySector_NextPortfolio(g)
    \/ SearchBySector_NextHolding(g)
    \/ SearchBySector_Found(g)
    \/ SearchBySector_RUnlock(g)
    \/ CompanyFindSteps(g)
    \/ CompanySave_Lock(g)
    \/ CompanySave_Wait(g)
    \/ CompanySave_Store(g)
    \/ CompanySave_Unlock(g)
    \/ CompanyDelete_Lock(g)
    \/ CompanyDelete_Wait(g)
    \/ CompanyDelete_Body(g)
    \/ CompanyDelete_Unlock(g)

LiveRefs == {1}      \* portfolio and company pointers of SpecRepoLive

LiveNext ==
    \/ CallNewPortfolio(LiveRefs, "p1", Moderate, Money(1, "USD"))
    \/ CallAddPosition(1, ConcPosition, Money(1, "USD"))
    \/ CallNewCompany(LiveRefs, "AAPL", Technology)
    \/ \E r \in LiveRefs : CallPortfolioSave(r)
    \/ \E r \in LiveRefs : CallCompanySave(r)
    \/ \E g \in Threads, r \in LiveRefs : GoPortfolioSave(g, r)
    \/ \E g \in Threads : GoPortfolioFindByID(g, "p1")
    \/ \E g \in Threads : GoPortfolioDelete(g, "p1")
    \/ \E g \in Threads : GoSearchBySector(g, Technology)
    \/ \E g \in Threads, r \in LiveRefs : GoCompanySave(g, r)
    \/ \E g \in Threads : GoCompanyFindByTicker(g, "AAPL")
    \/ \E g \in Threads : GoCompanyDelete(g, "AAPL")
    \/ \E g \in Threads : RepoConcSteps(g)

SpecRepoLive ==
    Init /\ [][LiveNext]_vars /\ \A g \in Threads : WF_vars(RepoConcSteps(g))

\* g is inside a call: started and not yet returned
Running(g) == pc[g] \notin {"idle", "done"}
\* g holds mu, or is inside mu.Lock()
Holds(mu, g) == mu.writer = g \/ g \in mu.readers

\* C26: the operations of the two repositories cannot deadlock: whenever a
\* call is running, some running call can take its next statement; a
\* goroutine never takes the portfolio repository's lock while it holds the
\* company repository's; and every call started eventually returns, with no
\* lock left held.
C26_NoDeadlock ==
    /\ []((\E g \in Threads : Running(g)) =>
            \E g \in Threads : Running(g) /\ ENABLED RepoConcSteps(g))
    /\ [][\A g \in Threads :
            (~Holds(pMu, g) /\ Holds(pMu', g)) => ~Holds(cMu, g)]_vars
    /\ [](\A g \in Threads :
            ~Running(g) => ~Holds(pMu, g) /\ ~Holds(cMu, g))
    /\ \A g \in Threads : Running(g) ~> pc[g] = "done"

\* a SearchBySector holds the portfolio repository's read lock and waits for
\* the company repository's, which a Save of the other goroutine holds
C26_Witness ==
    \E g \in Threads : \E o \in Threads \ {g} :
        /\ loc[g].op = "PortfolioRepo.SearchBySector"
        /\ pc[g] = "CompanyRepo.FindByTicker"
        /\ g \in pMu.readers
        /\ pc[o] = "CompanyRepo.Save.store"
        /\ cMu.writer = o
        /\ ~ENABLED RepoConcSteps(g)

(***************************************************************************)
(* PortfolioService.GetPortfolioDetails next to an AddPosition             *)
(* (SpecObserve).  The caller of GetPortfolioDetails reads the portfolio   *)
(* through the pointer it got; no lock is held by then.                    *)
(***************************************************************************)
\* go portfolioService.GetPortfolioDetails(portfolioID) and read the result:
\* the argument check, then the call of portfolioRepo.FindByID
GoGetPortfolioDetails(g, portfolioID) ==
    LET l == [Locals0 EXCEPT !.op = "PortfolioService.GetPortfolioDetails",
                             !.id = portfolioID]
    IN  IF portfolioID = ""
        THEN Go(g, "done", [l EXCEPT !.err = Err("portfolioID cannot be empty")])
        ELSE Go(g, "PortfolioRepo.FindByID",
                [l EXCEPT !.after = "GetPortfolioDetails.found"])

\* FindByID has returned: the error and nil checks, return p, nil
GetPortfolioDetails_Found(g) ==
    /\ At(g, "GetPortfolioDetails.found")
    /\ IF loc[g].err # Nil
       THEN Finish(g, Errorf("failed to find portfolio", loc[g].err))
       ELSE IF loc[g].ref = Null
       THEN Finish(g, Err("portfolio not found"))
       ELSE Goto(g, "GetPortfolioDetails.returned") /\ UNCHANGED loc
    /\ UNCHANGED <<heap, repoVars, now, ret, pMu, cMu, fault>>

\* the caller reads p.CashBalance.Amount (into tmp) and p.Holdings (into
\* snap) in one go.  Reading a Go map while another goroutine writes it is a
\* data race: the runtime may stop the process
GetPortfolioDetails_Observe(g) ==
    /\ At(g, "GetPortfolioDetails.returned")
    /\ \/ /\ loc' = [loc EXCEPT ![g].tmp = heap[loc[g].ref].CashBalance.Amount,
                                ![g].snap = heap[loc[g].ref].Holdings,
                                ![g].err = Nil]
          /\ pc' = [pc EXCEPT ![g] = "done"]
          /\ UNCHANGED fault
       \/ /\ \E o \in Threads \ {g} :
                /\ pc[o] = "Portfolio.AddPosition.holdings.write"
                /\ loc[o].ref = loc[g].ref
          /\ fault' = "concurrent map read and map write"
          /\ UNCHANGED <<pc, loc>>
    /\ UNCHANGED <<heap, repoVars, now, ret, pMu, cMu>>

GetPortfolioDetailsSteps(g) ==
    \/ GetPortfolioDetails_Found(g)
    \/ GetPortfolioDetails_Observe(g)

ObserveNext ==
    \/ \E tk \in Tickers : CallCreateCompany(SvcCompanyRefs, tk, Technology)
    \/ \E a \in ConcCash : CallCreatePortfolio(SvcRefs, Money(a, "USD"), Moderate)
    \/ \E tk \in Tickers, a \in ConcPrices :
            GoAddPosition("g1", "u1", tk, 1, Money(a, "USD"))
    \/ \E id \in SvcIDs : GoGetPortfolioDetails("g2", id)
    \/ \E g \in Threads : CompanyFindSteps(g)
    \/ \E g \in Threads : PortfolioRepoSteps(g)
    \/ \E g \in Threads : AddPositionSteps(g)
    \/ \E g \in Threads : GetPortfolioDetailsSteps(g)

SpecObserve == Init /\ [][ObserveNext]_vars

\* the Save of o's AddPosition has executed
SaveExecuted(o) ==
    \/ pc[o] = "AddPosition.saved"
    \/ pc[o] = "PortfolioRepo.Save.unlock"
    \/ pc[o] = "done" /\ loc[o].err = Nil
\* C27: what the caller of GetPortfolioDetails reads, next to an AddPosition
\* on the same portfolio, is the portfolio entirely before or entirely after
\* that AddPosition: never the cash debited with the new holding absent, and
\* nothing of the change unless AddPosition's Save has executed.
C27_ReadIsolated ==
    [][ \A g \in Threads : \A o \in Threads \ {g} :
            (/\ loc[g].op = "PortfolioService.GetPortfolioDetails"
             /\ pc[g] = "GetPortfolioDetails.returned"
             /\ pc'[g] = "done"
             /\ IsAdd(o)
             /\ loc[o].id = loc[g].id)
            => LET pre == loc[g].pre.h[loc[g].ref] IN
               /\ ~(/\ loc'[g].tmp < pre.CashBalance.Amount
                    /\ loc[o].ticker \notin DOMAIN loc'[g].snap)
               /\ (\/ loc'[g].tmp # pre.CashBalance.Amount
                   \/ loc'[g].snap # pre.Holdings) => SaveExecuted(o)
      ]_vars

(***************************************************************************)
(* A repository Delete next to a service's read-modify-write               *)
(* (SpecResurrect)                                                         *)
(***************************************************************************)
PortfolioDeleteSteps(g) ==
    \/ PortfolioDelete_Lock(g)
    \/ PortfolioDelete_Wait(g)
    \/ PortfolioDelete_Body(g)
    \/ PortfolioDelete_Unlock(g)

ResurrectNext ==
    \/ \E tk \in Tickers : CallCreateCompany(SvcCompanyRefs, tk, Technology)
    \/ \E a \in ConcCash : CallCreatePortfolio(SvcRefs, Money(a, "USD"), Moderate)
    \/ \E tk \in Tickers, a \in ConcPrices :
            GoAddPosition("g1", "u1", tk, 1, Money(a, "USD"))
    \/ \E id \in ConcIDs \cup {"u1"} : GoPortfolioDelete("g2", id)
    \/ \E g \in Threads : CompanyFindSteps(g)
    \/ \E g \in Threads : PortfolioRepoSteps(g)
    \/ \E g \in Threads : AddPositionSteps(g)
    \/ \E g \in Threads : PortfolioDeleteSteps(g)

SpecResurrect == Init /\ [][ResurrectNext]_vars

\* C28: once Delete(id) has returned nil the portfolio stays absent (nothing
\* creates one while the two calls run): an AddPosition that loaded it before
\* the Delete does not put it back with its Save.
C28_DeletedStaysAbsent ==
    \A g \in Threads :
        (/\ loc[g].op = "PortfolioRepo.Delete"
         /\ pc[g] = "done"
         /\ loc[g].err = Nil)
        => loc[g].id \notin DOMAIN portfolios

(***************************************************************************)
(* C29: the holdings of the stored portfolios (Spec)                       *)
(***************************************************************************)
\* the entry of p.Holdings under key k is well formed
WellFormedHolding(p, k) ==
    /\ p.Holdings[k].CompanyTicker = k
    /\ p.Holdings[k].Shares > 0
    /\ k \in DOMAIN companies
    /\ CompanyRepo_FindByTicker(companies, k).err = Nil
    /\ cheap[CompanyRepo_FindByTicker(companies, k).ref].Ticker = k

\* C29: after any sequence of calls of the services (no repository Delete),
\* every entry of every stored portfolio's Holdings has its key as
\* CompanyTicker, Shares > 0, and a ticker that FindByTicker resolves to a
\* stored company.
C29_HoldingsWellFormed ==
    \A id \in DOMAIN portfolios :
        \A k \in DOMAIN heap[portfolios[id]].Holdings :
            WellFormedHolding(heap[portfolios[id]], k)

\* a stored portfolio holds both tickers, and AdjustPosition has just set the
\* shares of one of them to 2
C29_Witness ==
    /\ ret.op = "AdjustPosition"
    /\ ret.err = Nil
    /\ ret.key \in DOMAIN portfolios
    /\ LET p == heap[portfolios[ret.key]] IN
        /\ DOMAIN p.Holdings = {"AAPL", "MSFT"}
        /\ p.Holdings[ret.ticker].Shares = 2
        /\ \E k \in DOMAIN p.Holdings : p.Holdings[k].Shares = 1

\* C30: a PortfolioService.AddPosition that returns nil, with shares > 0 and
\* purchasePrice.Amount >= 0, never increases the stored cash: the cash
\* afterwards is at most the cash before, and the debit is the product
\* purchasePrice.Amount * shares as integers, also when that product does
\* not fit int64.
C30_NeverIncreasesCash ==
    [][ \A tk \in SvcTickers, n \in ShareCounts, a \in SvcPrices :
            (/\ ret'.op = "PortfolioService.AddPosition"
             /\ ret'.err = Nil
             /\ n > 0
             /\ a >= 0
             /\ ret'.key \in DOMAIN portfolios
             /\ CallServiceAddPosition(ret'.key, tk, n, Money(a, "USD")))
            => LET before == heap[portfolios[ret'.key]].CashBalance.Amount
                   after == heap'[portfolios[ret'.key]].CashBalance.Amount
               IN  /\ after <= before
                   /\ before - after = a * n
      ]_vars

====
